---- MODULE Spec2Model ----
(***************************************************************************)
(* Deal-Tool: the deal filters (deal_filters.py, main.py), the weighted    *)
(* sampler and the per-block game allocation of the e-mail builder         *)
(* (main.py), as state machines.                                           *)
(*                                                                         *)
(* Representation.  A Python str is a sequence of one-character strings    *)
(* (<<"a", "/">> is "a/").  An optional value is None (<<>>) or Some(v)    *)
(* (<<v>>).  A row of the pool is a game id; Game(id) is the row's dict.   *)
(* A currency code is a string, the key of variants_by_currency.           *)
(* A list position stands for the object stored at it.                     *)
(* A filter type and a review label are strings compared as a whole.       *)
(* A Unix timestamp in ms is the pair of its day since 1970-01-01 and the  *)
(* ms within that day.                                                     *)
(***************************************************************************)
EXTENDS Integers, Sequences, FiniteSets, TLC

VARIABLES
    \* _weighted_sample: one call
    ws_games,   \* the list passed as games
    ws_n,       \* the argument n
    ws,         \* the call's frame: pc, work, out, the loop counter
    \* _email_block_games: the calls in progress, one per thread
    threads,    \* the threads that call _email_block_games
    blocks,     \* the blocks argument (the template's block dicts)
    pool,       \* the pool argument (a list of rows)
    index,      \* the index argument: None or Some(product index)
    currency,   \* the currency argument
    run,        \* per thread: the frame of its call (pc, i, used, result)
    \* one call of a filter
    f_rows,     \* the rows argument
    f_call,     \* the filter called and its criteria, NoCall before the call
    f_out,      \* the list the call returned
    \* one call of _game_pick_score
    sc_row,     \* the row argument
    sc_out,     \* None before the call, then Some(the score returned)
    \* the application's background operations
    _worker_busy,   \* self._worker_busy
    _worker_queue,  \* self._worker_queue: the messages put and not yet taken
    workers,        \* the worker threads started, in order: op, pc, progress left
    polls,          \* the root.after(50, self._process_worker_queue) calls pending
    gui,            \* self._index is loaded, the blocks raise, the last request
    \* one call of build_email_html (its blocks and game_pool are blocks and pool)
    pool_idx,   \* pool_idx[0]
    bh          \* the call's frame: pc, the block reached, the slices handed out

sampleVars == <<ws_games, ws_n, ws>>
allocVars == <<threads, blocks, pool, index, currency, run>>
filterVars == <<f_rows, f_call, f_out>>
scoreVars == <<sc_row, sc_out>>
guiVars == <<_worker_busy, _worker_queue, workers, polls, gui>>
htmlVars == <<pool_idx, bh>>
vars == <<ws_games, ws_n, ws, threads, blocks, pool, index, currency, run,
          f_rows, f_call, f_out, sc_row, sc_out,
          _worker_busy, _worker_queue, workers, polls, gui, pool_idx, bh>>

----------------------------------------------------------------------------
(* Python values *)

None == <<>>
Some(v) == <<v>>
IsNone(x) == x = <<>>
Get(x) == x[1]
\* (x or ""): None and "" both give ""
OrEmpty(x) == IF x = <<>> THEN <<>> ELSE x[1]

Min2(a, b) == IF a <= b THEN a ELSE b
Max2(a, b) == IF a >= b THEN a ELSE b

IsSpace(c) == c \in {" ", "\t"}
IsDigit(c) == c \in {"0", "1", "2", "3", "4", "5", "6", "7", "8", "9"}

RECURSIVE LStrip(_)
LStrip(s) == IF s # <<>> /\ IsSpace(Head(s)) THEN LStrip(Tail(s)) ELSE s

RECURSIVE RStrip(_)
RStrip(s) ==
    IF s # <<>> /\ IsSpace(s[Len(s)]) THEN RStrip(SubSeq(s, 1, Len(s) - 1)) ELSE s

\* str.strip()
Strip(s) == RStrip(LStrip(s))

LowerChar(c) ==
    CASE c = "A" -> "a" [] c = "B" -> "b" [] c = "C" -> "c" [] c = "D" -> "d"
      [] c = "E" -> "e" [] c = "F" -> "f" [] c = "G" -> "g" [] c = "H" -> "h"
      [] c = "I" -> "i" [] c = "J" -> "j" [] c = "K" -> "k" [] c = "L" -> "l"
      [] c = "M" -> "m" [] c = "N" -> "n" [] c = "O" -> "o" [] c = "P" -> "p"
      [] c = "Q" -> "q" [] c = "R" -> "r" [] c = "S" -> "s" [] c = "T" -> "t"
      [] c = "U" -> "u" [] c = "V" -> "v" [] c = "W" -> "w" [] c = "X" -> "x"
      [] c = "Y" -> "y" [] c = "Z" -> "z"
      [] OTHER -> c

\* str.lower()
Lower(s) == [k \in 1..Len(s) |-> LowerChar(s[k])]

\* needle in hay
Contains(hay, needle) ==
    \E k \in 0..(Len(hay) - Len(needle)) : SubSeq(hay, k + 1, k + Len(needle)) = needle

\* the index of the first c in s, 0 when there is none
RECURSIVE FindChar(_, _, _)
FindChar(s, c, k) ==
    IF k > Len(s) THEN 0 ELSE IF s[k] = c THEN k ELSE FindChar(s, c, k + 1)

RECURSIVE RStripSlash(_)
RStripSlash(s) ==
    IF s # <<>> /\ s[Len(s)] = "/" THEN RStripSlash(SubSeq(s, 1, Len(s) - 1)) ELSE s

\* product_index.normalize_url, of a str
normalize_url(url) ==
    LET u == Strip(url)
        h == FindChar(u, "#", 1)
        v == IF h > 0 THEN SubSeq(u, 1, h - 1) ELSE u
    IN  IF url = <<>> \/ u = <<>> THEN <<>> ELSE RStripSlash(v)

\* int(s) of a str: optional sign, digits, surrounding whitespace; None is ValueError
RECURSIVE DigitsValue(_, _)
DigitsValue(s, acc) ==
    IF s = <<>> THEN acc
    ELSE DigitsValue(Tail(s), 10 * acc +
            (CASE Head(s) = "0" -> 0 [] Head(s) = "1" -> 1 [] Head(s) = "2" -> 2
               [] Head(s) = "3" -> 3 [] Head(s) = "4" -> 4 [] Head(s) = "5" -> 5
               [] Head(s) = "6" -> 6 [] Head(s) = "7" -> 7 [] Head(s) = "8" -> 8
               [] Head(s) = "9" -> 9))

AllDigits(s) == s # <<>> /\ \A k \in 1..Len(s) : IsDigit(s[k])

PyInt(s) ==
    LET t == Strip(s)
        signed == t # <<>> /\ Head(t) \in {"+", "-"}
        d == IF signed THEN Tail(t) ELSE t
    IN  IF ~AllDigits(d) THEN None
        ELSE IF signed /\ Head(t) = "-" THEN Some(0 - DigitsValue(d, 0))
        ELSE Some(DigitsValue(d, 0))

----------------------------------------------------------------------------
(* The rows.  Seven products of the feed, enriched with Steam data. *)

\* a Unix timestamp in ms, kept as the day since 1970-01-01 and the ms within it
At(day, ms) == [day |-> day, ms |-> ms]

_ONE_DAY_MS == 86400000

\* t + k ms, for -_ONE_DAY_MS <= k <= _ONE_DAY_MS
PlusMs(t, k) ==
    At(t.day + ((t.ms + k) \div _ONE_DAY_MS), (t.ms + k) % _ONE_DAY_MS)

TimeLe(a, b) == a.day < b.day \/ (a.day = b.day /\ a.ms <= b.ms)
TimeLt(a, b) == ~TimeLe(b, a)

\* the calendar of datetime(y, mo, d): ValueError outside it
IsLeap(y) == (y % 4 = 0 /\ y % 100 # 0) \/ y % 400 = 0

DaysInMonth(y, mo) ==
    IF mo = 2 THEN (IF IsLeap(y) THEN 29 ELSE 28)
    ELSE IF mo \in {4, 6, 9, 11} THEN 30 ELSE 31

ValidDate(y, mo, d) ==
    y \in 1..9999 /\ mo \in 1..12 /\ d \in 1..DaysInMonth(y, mo)

\* datetime(y, mo, d, tzinfo=utc).timestamp() in days
DaysFromCivil(y, mo, d) ==
    LET yy == IF mo <= 2 THEN y - 1 ELSE y
        era == yy \div 400
        yoe == yy - era * 400
        mp == IF mo > 2 THEN mo - 3 ELSE mo + 9
        doy == ((153 * mp + 2) \div 5) + d - 1
        doe == yoe * 365 + (yoe \div 4) - (yoe \div 100) + doy
    IN  era * 146097 + doe - 719468

\* discountEndDate of a feed item: a number of ms, or text that int() rejects
EndAt(y, mo, d, ms) == Some([ok |-> TRUE, at |-> At(DaysFromCivil(y, mo, d), ms)])
EndText == Some([ok |-> FALSE, at |-> At(0, 0)])

Variant(dprice, dpct, oprice, dend) ==
    [discountPrice |-> dprice, discountPercentage |-> dpct, originalPrice |-> oprice,
     discountEndDate |-> dend]

\* steam_release_date: no value, text that no strptime format reads ("Coming
\* soon", the dash), or text whose month, day and year one of the formats reads
NoReleaseDate == [kind |-> "none", y |-> 0, mo |-> 0, d |-> 0]
ReleaseText == [kind |-> "text", y |-> 0, mo |-> 0, d |-> 0]
ReleaseOn(y, mo, d) == [kind |-> "date", y |-> y, mo |-> mo, d |-> d]

\* prices are in cents; a review label is a string compared as a whole
GameTable == <<
    [title |-> <<"a">>, link |-> Some(<<"a">>), steam_app_id |-> Some(1),
     steam_publisher |-> Some(<<"A", "b">>), steam_developer |-> Some(<<"x">>),
     steam_tags |-> << <<"r", "p", "g">> >>,
     variants_by_currency |->
        [USD |-> Some(Variant(Some(900), Some(<<"1", "0">>), 1000,
                              EndAt(2026, 2, 15, 43200000))),
         EUR |-> None],
     steam_percent_positive |-> Some(60), steam_total_reviews |-> Some(9),
     steam_review_desc |-> Some("Mixed"),
     steam_release_date |-> ReleaseOn(2012, 8, 21),
     steamspy_owners_estimate |-> Some(99), steamspy_ccu |-> None],
    [title |-> <<"b">>, link |-> Some(<<"b", "/">>), steam_app_id |-> None,
     steam_publisher |-> Some(<<"b">>), steam_developer |-> None,
     steam_tags |-> << >>,
     variants_by_currency |->
        [USD |-> Some(Variant(Some(500), Some(<<"5", "0">>), 1000,
                              EndAt(2026, 2, 28, 86399999))),
         EUR |-> Some(Variant(None, Some(<<"4", "0">>), 800,
                              EndAt(2026, 2, 1, 0)))],
     steam_percent_positive |-> Some(75), steam_total_reviews |-> Some(999),
     steam_review_desc |-> Some("Mostly Positive"),
     steam_release_date |-> ReleaseOn(2026, 2, 15),
     steamspy_owners_estimate |-> None, steamspy_ccu |-> Some(9)],
    [title |-> <<"c">>, link |-> Some(<<"c", "#", "x">>), steam_app_id |-> Some(3),
     steam_publisher |-> None, steam_developer |-> Some(<<"x", "a">>),
     steam_tags |-> << <<"f", "p", "s">>, <<"R", "p", "g">> >>,
     variants_by_currency |->
        [USD |-> Some(Variant(Some(250), Some(<<"7", "5">>), 1000,
                              EndAt(2026, 3, 1, 0))),
         EUR |-> None],
     steam_percent_positive |-> Some(90), steam_total_reviews |-> Some(999999),
     steam_review_desc |-> Some("Very Positive"),
     steam_release_date |-> ReleaseText,
     steamspy_owners_estimate |-> Some(9999999), steamspy_ccu |-> Some(99999)],
    [title |-> <<"d">>, link |-> None, steam_app_id |-> Some(7),
     steam_publisher |-> Some(<<" ", "A", " ">>), steam_developer |-> None,
     steam_tags |-> << >>,
     variants_by_currency |->
        [USD |-> Some(Variant(Some(100), Some(<<"9", "0">>), 1000, None)),
         EUR |-> None],
     steam_percent_positive |-> None, steam_total_reviews |-> None,
     steam_review_desc |-> None,
     steam_release_date |-> NoReleaseDate,
     steamspy_owners_estimate |-> None, steamspy_ccu |-> None],
    [title |-> <<"e">>, link |-> Some(<<" ">>), steam_app_id |-> None,
     steam_publisher |-> None, steam_developer |-> None,
     steam_tags |-> << >>,
     variants_by_currency |->
        [USD |-> Some(Variant(None, None, 1000, EndText)),
         EUR |-> None],
     steam_percent_positive |-> None, steam_total_reviews |-> Some(0),
     steam_review_desc |-> None,
     steam_release_date |-> ReleaseOn(2020, 2, 30),
     steamspy_owners_estimate |-> None, steamspy_ccu |-> None],
    [title |-> <<"f">>, link |-> Some(<<"f">>), steam_app_id |-> Some(6),
     steam_publisher |-> Some(<<"b", "a">>), steam_developer |-> Some(<<"x">>),
     steam_tags |-> << <<"r", "p", "g">> >>,
     variants_by_currency |->
        [USD |-> Some(Variant(Some(700), Some(<<"3", "0">>), 1000,
                              EndAt(2026, 2, 15, 0))),
         EUR |-> None],
     steam_percent_positive |-> Some(100), steam_total_reviews |-> Some(99),
     steam_review_desc |-> Some("Very Positive"),
     steam_release_date |-> ReleaseOn(2026, 3, 1),
     steamspy_owners_estimate |-> Some(9), steamspy_ccu |-> Some(9)],
    [title |-> <<"G", " ", "a">>, link |-> None, steam_app_id |-> None,
     steam_publisher |-> None, steam_developer |-> None,
     steam_tags |-> << >>,
     variants_by_currency |->
        [USD |-> Some(Variant(Some(600), Some(<<"4", "0">>), 1000,
                              EndAt(2026, 2, 15, 43200000))),
         EUR |-> None],
     steam_percent_positive |-> Some(75), steam_total_reviews |-> Some(99),
     steam_review_desc |-> Some("Mostly Positive"),
     steam_release_date |-> ReleaseOn(2012, 8, 21),
     steamspy_owners_estimate |-> None, steamspy_ccu |-> None] >>

Game(id) == GameTable[id]
GameIds == 1..Len(GameTable)

\* on_sale._discount_pct: the best int(discountPercentage) of any variant, or None
Currencies == {"USD", "EUR"}

VariantDiscounts(g) ==
    {Get(PyInt(Get(Get(g.variants_by_currency[c]).discountPercentage))) :
        c \in {c \in Currencies :
                 /\ ~IsNone(g.variants_by_currency[c])
                 /\ Strip(OrEmpty(Get(g.variants_by_currency[c]).discountPercentage)) # <<>>
                 /\ ~IsNone(PyInt(Get(Get(g.variants_by_currency[c]).discountPercentage)))}}

_discount_pct(g) ==
    LET ds == VariantDiscounts(g)
    IN  IF ds = {} THEN None ELSE Some(CHOOSE d \in ds : \A e \in ds : e <= d)

\* main._game_used_key: the key a row is deduplicated by, or None
UrlKey(u) == [kind |-> "url", url |-> u, app_id |-> 0]
SteamKey(a) == [kind |-> "s", url |-> <<>>, app_id |-> a]

_game_used_key(g) ==
    LET link == Strip(OrEmpty(g.link))
    IN  IF link # <<>> THEN Some(UrlKey(normalize_url(link)))
        ELSE IF ~IsNone(g.steam_app_id) THEN Some(SteamKey(Get(g.steam_app_id)))
        ELSE None

\* log10(1 + x) for x = 10^k - 1, the values the table holds
RECURSIVE Log10(_)
Log10(x) == IF x < 10 THEN 0 ELSE 1 + Log10(x \div 10)

\* as _game_pick_score, but the reviews component is not capped
ScoreUncappedReviews(g) ==
    LET pct == IF IsNone(g.steam_percent_positive) THEN 0 ELSE Get(g.steam_percent_positive)
        rev == IF IsNone(g.steam_total_reviews) THEN 0 ELSE Get(g.steam_total_reviews)
        dis == IF IsNone(_discount_pct(g)) THEN 0 ELSE Get(_discount_pct(g))
        own == IF IsNone(g.steamspy_owners_estimate) THEN 0 ELSE Get(g.steamspy_owners_estimate)
        ccu == IF IsNone(g.steamspy_ccu) THEN 0 ELSE Get(g.steamspy_ccu)
    IN  7500 * pct
        + (IF rev # 0 THEN 100000 * Log10(1 + rev) ELSE 0)
        + 6000 * Min2(100, dis)
        + (IF own # 0 THEN 75000 * Min2(8, Log10(1 + own)) ELSE 0)
        + (IF ccu # 0 THEN 90000 * Min2(5, Log10(1 + ccu)) ELSE 0)

\* main._game_pick_score, in units of 1/3,000,000 (so that 1e-6 is 3 units):
\* 0.25 rating + 0.2 reviews + 0.2 discount + 0.2 owners + 0.15 ccu
_game_pick_score(g) ==
    LET pct == IF IsNone(g.steam_percent_positive) THEN 0 ELSE Get(g.steam_percent_positive)
        rev == IF IsNone(g.steam_total_reviews) THEN 0 ELSE Get(g.steam_total_reviews)
        dis == IF IsNone(_discount_pct(g)) THEN 0 ELSE Get(_discount_pct(g))
        own == IF IsNone(g.steamspy_owners_estimate) THEN 0 ELSE Get(g.steamspy_owners_estimate)
        ccu == IF IsNone(g.steamspy_ccu) THEN 0 ELSE Get(g.steamspy_ccu)
    IN  7500 * pct
        + (IF rev # 0 THEN 100000 * Min2(6, Log10(1 + rev)) ELSE 0)
        + 6000 * Min2(100, dis)
        + (IF own # 0 THEN 75000 * Min2(8, Log10(1 + own)) ELSE 0)
        + (IF ccu # 0 THEN 90000 * Min2(5, Log10(1 + ccu)) ELSE 0)

\* 1e-6 in the units of _game_pick_score
Epsilon == 3

----------------------------------------------------------------------------
(* _weighted_sample(games, n, score_fn).  The frame holds work as a list   *)
(* of (position in games, weight) and out as a list of positions.          *)

\* work = [(g, max(1e-6, score_fn(g))) for g in games]
WorkList(games) ==
    [k \in 1..Len(games) |-> [pos |-> k, w |-> Max2(Epsilon, _game_pick_score(Game(games[k])))]]

RECURSIVE TotalWeight(_)
TotalWeight(work) == IF work = <<>> THEN 0 ELSE Head(work).w + TotalWeight(Tail(work))

\* the lines before the loop: the two early returns, or the work list
WS_StartAllOnlyAbove(games, n) ==
    IF n <= 0 \/ games = <<>>
    THEN [pc |-> "return", work |-> <<>>, out |-> <<>>, k |-> 0]
    ELSE IF n > Len(games)
    THEN [pc |-> "return", work |-> <<>>, out |-> [k \in 1..Len(games) |-> k], k |-> 0]
    ELSE [pc |-> "loop", work |-> WorkList(games), out |-> <<>>, k |-> 0]

WS_Start(games, n) ==
    IF n <= 0 \/ games = <<>>
    THEN [pc |-> "return", work |-> <<>>, out |-> <<>>, k |-> 0]
    ELSE IF n >= Len(games)
    THEN [pc |-> "return", work |-> <<>>, out |-> [k \in 1..Len(games) |-> k], k |-> 0]
    ELSE [pc |-> "loop", work |-> WorkList(games), out |-> <<>>, k |-> 0]

\* for idx, (game, w) in enumerate(work): r -= w; if r <= 0: ... break
\* the index the walk stops at, 0 when it runs to the end (the for's else)
RECURSIVE Walk(_, _, _)
Walk(work, r, idx) ==
    IF idx > Len(work) THEN 0
    ELSE IF r - work[idx].w <= 0 THEN idx
    ELSE Walk(work, r - work[idx].w, idx + 1)

RemoveAt(s, k) == SubSeq(s, 1, k - 1) \o SubSeq(s, k + 1, Len(s))

\* The draws r = random.random() * total that the model takes: one inside each
\* item's interval of the cumulative weights (every weight is at least 3 units),
\* the draw 0, and total + 1 for a draw that rounding leaves positive after the
\* last subtraction.
RECURSIVE CumWeights(_, _)
CumWeights(work, acc) ==
    IF work = <<>> THEN {}
    ELSE {acc + Head(work).w} \cup CumWeights(Tail(work), acc + Head(work).w)

Draws(work) ==
    {0} \cup {c - 1 : c \in CumWeights(work, 0)} \cup {TotalWeight(work) + 1}

\* one pass of the loop body with the draw r
WS_IterKeepsItem(st, r) ==
    LET idx == Walk(st.work, r, 1)
        hit == IF idx = 0 THEN Len(st.work) ELSE idx
    IN  [pc |-> "loop", work |-> st.work,
         out |-> Append(st.out, st.work[hit].pos), k |-> st.k + 1]

WS_IterFallbackNotEmitted(st, r) ==
    LET idx == Walk(st.work, r, 1)
    IN  IF idx = 0
        THEN [pc |-> "loop", work |-> SubSeq(st.work, 1, Len(st.work) - 1),
              out |-> st.out, k |-> st.k + 1]
        ELSE [pc |-> "loop", work |-> RemoveAt(st.work, idx),
              out |-> Append(st.out, st.work[idx].pos), k |-> st.k + 1]

\* as WS_Iter, but the for's else pops the first remaining item
WS_IterFallbackFirst(st, r) ==
    LET idx == Walk(st.work, r, 1)
        hit == IF idx = 0 THEN 1 ELSE idx
    IN  [pc |-> "loop", work |-> RemoveAt(st.work, hit),
         out |-> Append(st.out, st.work[hit].pos), k |-> st.k + 1]

WS_Iter(st, r) ==
    LET idx == Walk(st.work, r, 1)
        hit == IF idx = 0 THEN Len(st.work) ELSE idx
    IN  [pc |-> "loop", work |-> RemoveAt(st.work, hit),
         out |-> Append(st.out, st.work[hit].pos), k |-> st.k + 1]

\* the loop is left: range(n) is exhausted, work is empty or total <= 0
WS_LoopEnds(st, n) ==
    st.k >= n \/ st.work = <<>> \/ TotalWeight(st.work) <= 0

\* the list the call returns
WS_Result(games, st) == [k \in 1..Len(st.out) |-> games[st.out[k]]]

\* every list of positions a call can return, over all draws
RECURSIVE WS_Outcomes(_, _)
WS_Outcomes(st, n) ==
    IF st.pc = "return" \/ WS_LoopEnds(st, n) THEN {st.out}
    ELSE UNION {WS_Outcomes(WS_Iter(st, r), n) : r \in Draws(st.work)}

----------------------------------------------------------------------------
(* Operator expressions: re.match(r"^(>=?|<=?|==?|!=)\s*(\d+)$", s) *)

\* group 1: the operator the alternation takes at the start of s, <<>> when none
OpToken(s) ==
    IF s = <<>> THEN <<>>
    ELSE IF Head(s) \in {">", "<", "="}
    THEN IF Len(s) >= 2 /\ s[2] = "=" THEN <<Head(s), "=">> ELSE <<Head(s)>>
    ELSE IF Head(s) = "!" /\ Len(s) >= 2 /\ s[2] = "=" THEN <<"!", "=">>
    ELSE <<>>

\* what follows the operator and \s*
OperandText(s) == LStrip(SubSeq(s, Len(OpToken(s)) + 1, Len(s)))

\* as MatchOpInt, but a number without an operator is read as == number
MatchOpIntBareNumber(s) ==
    IF AllDigits(s) THEN Some([op |-> <<"=", "=">>, num |-> DigitsValue(s, 0)])
    ELSE IF OpToken(s) # <<>> /\ AllDigits(OperandText(s))
    THEN Some([op |-> OpToken(s), num |-> DigitsValue(OperandText(s), 0)])
    ELSE None

\* the match with (\d+): None, or Some([op, num])
MatchOpInt(s) ==
    IF OpToken(s) # <<>> /\ AllDigits(OperandText(s))
    THEN Some([op |-> OpToken(s), num |-> DigitsValue(OperandText(s), 0)])
    ELSE None

\* the match with (\d+(?:\.\d+)?): the operand as the fraction num / den
RECURSIVE Pow10(_)
Pow10(k) == IF k = 0 THEN 1 ELSE 10 * Pow10(k - 1)

MatchOpDecimal(s) ==
    LET t == OperandText(s)
        dot == FindChar(t, ".", 1)
        ip == IF dot = 0 THEN t ELSE SubSeq(t, 1, dot - 1)
        fp == IF dot = 0 THEN <<>> ELSE SubSeq(t, dot + 1, Len(t))
    IN  IF OpToken(s) # <<>> /\ AllDigits(ip) /\ (dot = 0 \/ AllDigits(fp))
        THEN Some([op |-> OpToken(s),
                   num |-> DigitsValue(ip \o fp, 0), den |-> Pow10(Len(fp))])
        ELSE None

\* def ok(...): the chain of if op == ...; any other op (a single "=") falls through
\* to return False.  a / b is compared with c / d (b, d > 0).
OpHolds(op, a, b, c, d) ==
    CASE op = <<">">> -> a * d > c * b
      [] op = <<">", "=">> -> a * d >= c * b
      [] op = <<"<">> -> a * d < c * b
      [] op = <<"<", "=">> -> a * d <= c * b
      [] op = <<"=", "=">> -> a * d = c * b
      [] op = <<"!", "=">> -> a * d # c * b
      [] OTHER -> FALSE

\* [r for r in rows if ok(r)], with the rows that ok accepts given as a set
RECURSIVE SelectRows(_, _)
SelectRows(rows, kept) ==
    IF rows = <<>> THEN <<>>
    ELSE IF Head(rows) \in kept THEN <<Head(rows)>> \o SelectRows(Tail(rows), kept)
    ELSE SelectRows(Tail(rows), kept)

Range(s) == {s[k] : k \in 1..Len(s)}

----------------------------------------------------------------------------
(* The filters a block applies: main.py and deal_filters.py *)

\* q in (r.get(field) or "").strip().lower()
FieldContains(value, q) == Contains(Lower(Strip(OrEmpty(value))), q)

_apply_publisher_filter(rows, query) ==
    LET q == Lower(Strip(query))
    IN  IF q = <<>> THEN rows
        ELSE SelectRows(rows, {r \in Range(rows) : FieldContains(Game(r).steam_publisher, q)})

_apply_developer_filter(rows, query) ==
    LET q == Lower(Strip(query))
    IN  IF q = <<>> THEN rows
        ELSE SelectRows(rows, {r \in Range(rows) : FieldContains(Game(r).steam_developer, q)})

\* steam_tags is a list in every row of the table
TagsMatch(tags, q) ==
    \E k \in 1..Len(tags) : tags[k] # <<>> /\ Contains(Lower(Strip(tags[k])), q)

_apply_tags_filter(rows, query) ==
    LET q == Lower(Strip(query))
    IN  IF q = <<>> THEN rows
        ELSE SelectRows(rows, {r \in Range(rows) : TagsMatch(Game(r).steam_tags, q)})

\* on_sale._price_for_currency (not in src/): discountPrice if present, else
\* originalPrice, of the currency's variant; None without that variant.  In cents.
_price_for_currency(g, cur) ==
    IF cur \notin Currencies \/ IsNone(g.variants_by_currency[cur]) THEN None
    ELSE LET v == Get(g.variants_by_currency[cur])
         IN  IF ~IsNone(v.discountPrice) THEN v.discountPrice ELSE Some(v.originalPrice)

PriceOk(r, m, cur) ==
    /\ ~IsNone(_price_for_currency(Game(r), cur))
    /\ OpHolds(m.op, Get(_price_for_currency(Game(r), cur)), 100, m.num, m.den)

apply_price_filter(rows, value_str, cur) ==
    LET s == Strip(value_str)
        m == MatchOpDecimal(s)
    IN  IF s = <<>> \/ IsNone(m) THEN rows
        ELSE SelectRows(rows, {r \in Range(rows) : PriceOk(r, Get(m), cur)})

DiscountOk(r, m) ==
    /\ ~IsNone(_discount_pct(Game(r)))
    /\ OpHolds(m.op, Get(_discount_pct(Game(r))), 1, m.num, 1)

apply_discount_filter(rows, value_str) ==
    LET s == Strip(value_str)
        m == MatchOpInt(s)
    IN  IF s = <<>> \/ IsNone(m) THEN rows
        ELSE SelectRows(rows, {r \in Range(rows) : DiscountOk(r, Get(m))})

----------------------------------------------------------------------------
(* The score and review filters: deal_filters.py *)

\* config.STEAM_LABEL_MIN_PERCENT.get(label_value)
STEAM_LABEL_MIN_PERCENT(label) ==
    CASE label = "Overwhelmingly Positive" -> Some(95)
      [] label = "Very Positive" -> Some(80)
      [] label = "Positive" -> Some(70)
      [] label = "Mostly Positive" -> Some(70)
      [] OTHER -> None

Abs(x) == IF x < 0 THEN 0 - x ELSE x

ScoreExactOk(r, target) ==
    /\ ~IsNone(Game(r).steam_percent_positive)
    /\ Abs(Get(Game(r).steam_percent_positive) - target) <= 1

\* def ok(pct) of the Operator branch
ScoreOpOk(r, m) ==
    /\ ~IsNone(Game(r).steam_percent_positive)
    /\ OpHolds(m.op, Get(Game(r).steam_percent_positive), 1, m.num, 1)

ScoreLabelOk(r, min_pct, label) ==
    /\ ~IsNone(Game(r).steam_percent_positive)
    /\ Get(Game(r).steam_percent_positive) >= min_pct
    /\ Game(r).steam_review_desc = Some(label)

\* filter_type and label_value are strings compared as a whole; score_value is a str
apply_score_filter(rows, filter_type, score_value, label_value) ==
    IF filter_type = "All" \/ filter_type = "" THEN rows
    ELSE IF filter_type = "Exact %"
    THEN LET target == PyInt(score_value)
         IN  IF IsNone(target) THEN rows
             ELSE SelectRows(rows, {r \in Range(rows) : ScoreExactOk(r, Get(target))})
    ELSE IF filter_type = "Operator"
    THEN LET m == MatchOpInt(Strip(score_value))
         IN  IF IsNone(m) THEN rows
             ELSE SelectRows(rows, {r \in Range(rows) : ScoreOpOk(r, Get(m))})
    ELSE IF filter_type = "Label" /\ label_value # ""
    THEN LET min_pct == STEAM_LABEL_MIN_PERCENT(label_value)
         IN  IF IsNone(min_pct) THEN rows
             ELSE SelectRows(rows,
                     {r \in Range(rows) : ScoreLabelOk(r, Get(min_pct), label_value)})
    ELSE rows

\* (r.get("steam_total_reviews") or 0) >= n
ReviewsOk(r, n) ==
    (IF IsNone(Game(r).steam_total_reviews) THEN 0
     ELSE Get(Game(r).steam_total_reviews)) >= n

apply_reviews_filter(rows, min_reviews) ==
    LET n == PyInt(min_reviews)
    IN  IF IsNone(n) THEN rows
        ELSE IF Get(n) <= 0 THEN rows
        ELSE SelectRows(rows, {r \in Range(rows) : ReviewsOk(r, Get(n))})

----------------------------------------------------------------------------
(* Date expressions and the sale-end filter: deal_filters.py, on_sale.py *)

\* (\d{4})-(\d{2})-(\d{2}) over the whole of s
IsDateText(s) ==
    /\ Len(s) = 10
    /\ s[5] = "-" /\ s[8] = "-"
    /\ \A k \in {1, 2, 3, 4, 6, 7, 9, 10} : IsDigit(s[k])

\* as _date_str_to_start_of_day_ms, but datetime() takes any numbers
StartOfDayAnyNumbers(text) ==
    LET s == Strip(text)
        y == DigitsValue(SubSeq(s, 1, 4), 0)
        mo == DigitsValue(SubSeq(s, 6, 7), 0)
        d == DigitsValue(SubSeq(s, 9, 10), 0)
    IN  IF s = <<>> THEN None
        ELSE IF ~IsDateText(s) THEN None
        ELSE Some(At(DaysFromCivil(y, mo, d), 0))

_date_str_to_start_of_day_ms(text) ==
    LET s == Strip(text)
        y == DigitsValue(SubSeq(s, 1, 4), 0)
        mo == DigitsValue(SubSeq(s, 6, 7), 0)
        d == DigitsValue(SubSeq(s, 9, 10), 0)
    IN  IF s = <<>> THEN None
        ELSE IF ~IsDateText(s) THEN None
        ELSE IF ~ValidDate(y, mo, d) THEN None
        ELSE Some(At(DaysFromCivil(y, mo, d), 0))

\* as _date_str_to_end_of_day_ms, but the day's first ms
EndOfDayIsStart(text) == _date_str_to_start_of_day_ms(text)

_date_str_to_end_of_day_ms(text) ==
    LET start == _date_str_to_start_of_day_ms(text)
    IN  IF IsNone(start) THEN None ELSE Some(PlusMs(Get(start), _ONE_DAY_MS - 1))

\* ^(date)\s*(?:\.\.|to)\s*(date)$ with re.I: what lies between the two dates
RangeSeparator(s) == Strip(SubSeq(s, 11, Len(s) - 10))

RangeMatch(s) ==
    /\ Len(s) >= 22
    /\ IsDateText(SubSeq(s, 1, 10))
    /\ IsDateText(SubSeq(s, Len(s) - 9, Len(s)))
    /\ (RangeSeparator(s) = <<".", ".">> \/ Lower(RangeSeparator(s)) = <<"t", "o">>)

\* ^(>=?|<=?|==?|!=)\s*(date)$
OpDateMatch(s) == OpToken(s) # <<>> /\ IsDateText(OperandText(s))

NoMode == [mode |-> "", a |-> None, b |-> None]

parse_sale_end_value(value_str) ==
    LET s == Strip(value_str)
        lo == _date_str_to_start_of_day_ms(SubSeq(s, 1, 10))
        hi == _date_str_to_end_of_day_ms(SubSeq(s, Len(s) - 9, Len(s)))
        date_ms == _date_str_to_end_of_day_ms(OperandText(s))
    IN  IF s = <<>> THEN NoMode
        ELSE IF RangeMatch(s)
        THEN IF ~IsNone(lo) /\ ~IsNone(hi) /\ TimeLe(Get(lo), Get(hi))
             THEN [mode |-> "range", a |-> lo, b |-> hi]
             ELSE NoMode
        ELSE IF OpDateMatch(s) /\ ~IsNone(date_ms)
        THEN [mode |-> "op", a |-> date_ms, b |-> None]
        ELSE NoMode

\* on_sale._sale_end_ms: the latest int(discountEndDate) of any variant, or None
VariantEnds(g) ==
    {Get(Get(g.variants_by_currency[c]).discountEndDate).at :
        c \in {c \in Currencies :
                 /\ ~IsNone(g.variants_by_currency[c])
                 /\ ~IsNone(Get(g.variants_by_currency[c]).discountEndDate)
                 /\ Get(Get(g.variants_by_currency[c]).discountEndDate).ok}}

_sale_end_ms(g) ==
    LET es == VariantEnds(g)
    IN  IF es = {} THEN None ELSE Some(CHOOSE t \in es : \A e \in es : TimeLe(e, t))

\* main._release_date_ms: start of the day strptime reads, or None
_release_date_ms(g) ==
    LET rd == g.steam_release_date
    IN  IF rd.kind = "date" /\ ValidDate(rd.y, rd.mo, rd.d)
        THEN Some(At(DaysFromCivil(rd.y, rd.mo, rd.d), 0))
        ELSE None

\* def ok(row) of the "op" mode, ms of the row given: the chain of if op == ...
\* as DayOpHolds, but > compares with the start of the day
DayOpHoldsAfterStart(op, ms, start_ms) ==
    LET end_ms == PlusMs(start_ms, _ONE_DAY_MS - 1)
    IN  CASE op = <<"<">> -> TimeLt(ms, start_ms)
          [] op = <<"<", "=">> -> TimeLe(ms, end_ms)
          [] op = <<">">> -> TimeLt(start_ms, ms)
          [] op = <<">", "=">> -> TimeLe(start_ms, ms)
          [] op = <<"=", "=">> -> TimeLe(start_ms, ms) /\ TimeLe(ms, end_ms)
          [] op = <<"!", "=">> -> ~(TimeLe(start_ms, ms) /\ TimeLe(ms, end_ms))
          [] OTHER -> FALSE

DayOpHolds(op, ms, start_ms) ==
    LET end_ms == PlusMs(start_ms, _ONE_DAY_MS - 1)
        next_day_ms == PlusMs(start_ms, _ONE_DAY_MS)
    IN  CASE op = <<"<">> -> TimeLt(ms, start_ms)
          [] op = <<"<", "=">> -> TimeLe(ms, end_ms)
          [] op = <<">">> -> TimeLe(next_day_ms, ms)
          [] op = <<">", "=">> -> TimeLe(start_ms, ms)
          [] op = <<"=", "=">> -> TimeLe(start_ms, ms) /\ TimeLe(ms, end_ms)
          [] op = <<"!", "=">> -> ~(TimeLe(start_ms, ms) /\ TimeLe(ms, end_ms))
          [] OTHER -> FALSE

\* the sort key (ms is None, ms or 0), negated ms when descending
SortKey(ms) == [none |-> IsNone(ms), t |-> IF IsNone(ms) THEN At(0, 0) ELSE Get(ms)]

\* as KeyLess, but a row with no time is ordered by the 0 its key holds
KeyLessNoneAsZero(ka, kb, descending) ==
    IF descending THEN TimeLt(kb.t, ka.t) ELSE TimeLt(ka.t, kb.t)

KeyLess(ka, kb, descending) ==
    \/ ~ka.none /\ kb.none
    \/ /\ ~ka.none /\ ~kb.none
       /\ IF descending THEN TimeLt(kb.t, ka.t) ELSE TimeLt(ka.t, kb.t)

\* sorted(rows, key=...): stable; times maps a row to its ms or None
RECURSIVE InsertSorted(_, _, _, _)
InsertSorted(sorted, r, times, descending) ==
    IF sorted = <<>> THEN <<r>>
    ELSE IF KeyLess(SortKey(times[r]), SortKey(times[Head(sorted)]), descending)
    THEN <<r>> \o sorted
    ELSE <<Head(sorted)>> \o InsertSorted(Tail(sorted), r, times, descending)

RECURSIVE Sorted(_, _, _)
Sorted(rows, times, descending) ==
    IF rows = <<>> THEN <<>>
    ELSE InsertSorted(Sorted(SubSeq(rows, 1, Len(rows) - 1), times, descending),
                      rows[Len(rows)], times, descending)

\* the "By date" branch shared by the sale-end and the release-date filter
ByDate(rows, value_str, times) ==
    LET p == parse_sale_end_value(value_str)
        s == Strip(value_str)
        start_ms == _date_str_to_start_of_day_ms(OperandText(s))
    IN  IF p.mode = "" THEN rows
        ELSE IF p.mode = "op"
        THEN IF IsNone(start_ms) THEN rows
             ELSE SelectRows(rows, {r \in Range(rows) :
                     /\ ~IsNone(times[r])
                     /\ DayOpHolds(OpToken(s), Get(times[r]), Get(start_ms))})
        ELSE SelectRows(rows, {r \in Range(rows) :
                     /\ ~IsNone(times[r])
                     /\ TimeLe(Get(p.a), Get(times[r]))
                     /\ TimeLe(Get(times[r]), Get(p.b))})

SaleEnds == [r \in GameIds |-> _sale_end_ms(Game(r))]

apply_sale_end_filter(rows, filter_type, value_str) ==
    IF filter_type = "" \/ filter_type = "All" THEN rows
    ELSE IF filter_type = "Ending Soon" THEN Sorted(rows, SaleEnds, FALSE)
    ELSE IF filter_type = "Ending Latest" THEN Sorted(rows, SaleEnds, TRUE)
    ELSE IF filter_type = "By date" THEN ByDate(rows, value_str, SaleEnds)
    ELSE rows

ReleaseDates == [r \in GameIds |-> _release_date_ms(Game(r))]

_apply_release_date_filter(rows, filter_type, value_str) ==
    IF filter_type = "" \/ filter_type = "All" THEN rows
    ELSE IF filter_type = "Newest" THEN Sorted(rows, ReleaseDates, TRUE)
    ELSE IF filter_type = "Oldest" THEN Sorted(rows, ReleaseDates, FALSE)
    ELSE IF filter_type = "By date" THEN ByDate(rows, value_str, ReleaseDates)
    ELSE rows

_apply_game_search_filter(rows, query) ==
    LET q == Lower(Strip(query))
    IN  IF q = <<>> THEN rows
        ELSE SelectRows(rows, {r \in Range(rows) : FieldContains(Some(Game(r).title), q)})

----------------------------------------------------------------------------
(* _email_block_games(blocks, pool, index, currency) *)

\* A block dict, its config flattened into it.  games_count is absent, an int or a
\* str (a template file can hold either); every other value is None or present.
GcAbsent == [kind |-> "none", n |-> 0, s |-> <<>>]
GcInt(k) == [kind |-> "int", n |-> k, s |-> <<>>]
GcStr(t) == [kind |-> "str", n |-> 0, s |-> t]

Block(type, gc, publisher, developer, tags, price, discount) ==
    [type |-> type, games_count |-> gc, publisher |-> publisher, developer |-> developer,
     tags |-> tags, price_value |-> price, discount_value |-> discount,
     override_urls |-> None, override_steam_ids |-> None,
     override_url |-> None, override_steam_id |-> None]

DealList == <<"d", "e", "a", "l", "_", "l", "i", "s", "t">>
Featured == <<"f", "e", "a", "t", "u", "r", "e", "d">>

\* btype = (block.get("type") or "").strip().lower()
BlockTypeKeepsCase(block) == Strip(OrEmpty(block.type))

BlockType(block) == Lower(Strip(OrEmpty(block.type)))

\* int((cfg.get("games_count") or 4)): None when int() raises ValueError
GamesCountNoDefault(gc) ==
    IF gc.kind = "str" THEN PyInt(gc.s) ELSE Some(gc.n)

GamesCount(gc) ==
    IF gc.kind = "none" \/ (gc.kind = "int" /\ gc.n = 0) \/ (gc.kind = "str" /\ gc.s = <<>>)
    THEN Some(4)
    ELSE IF gc.kind = "str" THEN PyInt(gc.s)
    ELSE Some(gc.n)

\* build_index: the key a product is stored under
IndexKey(p) == normalize_url(Strip(OrEmpty(Game(p).link)))

\* product_index.resolve_urls_to_products: the products, in order of first appearance
RECURSIVE ResolveFrom(_, _, _)
ResolveFrom(idx, urls, seen) ==
    IF urls = <<>> THEN <<>>
    ELSE LET key == normalize_url(Head(urls))
             hit == {p \in idx : IndexKey(p) = key}
         IN  IF key = <<>> \/ hit = {} \/ key \in seen
             THEN ResolveFrom(idx, Tail(urls), seen)
             ELSE <<CHOOSE p \in hit : TRUE>> \o ResolveFrom(idx, Tail(urls), seen \cup {key})

resolve_urls_to_products(idx, pasted_urls) == ResolveFrom(idx, pasted_urls, {})

\* link_to_game = {normalize_url(g.get("link") or ""): g for g in pool if (g.get("link") or "").strip()}
\* as the positions of pool that hold a key: a later row replaces an earlier one
LinkKey(g) == normalize_url(OrEmpty(Game(g).link))

LinkToGame(pl, key) ==
    LET at == {k \in 1..Len(pl) : Strip(OrEmpty(Game(pl[k]).link)) # <<>> /\ LinkKey(pl[k]) = key}
    IN  IF at = {} THEN None ELSE Some(pl[CHOOSE k \in at : \A j \in at : j <= k])

\* id_to_game = {g.get("steam_app_id"): g for g in pool if g.get("steam_app_id") is not None}
IdToGame(pl, aid) ==
    LET at == {k \in 1..Len(pl) : Game(pl[k]).steam_app_id = Some(aid)}
    IN  IF at = {} THEN None ELSE Some(pl[CHOOSE k \in at : \A j \in at : j <= k])

\* [f(x) for x in xs if f(x) is present]
RECURSIVE Present(_)
Present(opts) ==
    IF opts = <<>> THEN <<>>
    ELSE IF IsNone(Head(opts)) THEN Present(Tail(opts))
    ELSE <<Get(Head(opts))>> \o Present(Tail(opts))

\* filtered = [g for g in filtered if _game_used_key(g) not in used]
UnusedOnlyOff(rows, used) == rows

\* as UnusedOnly, but a row without a key is dropped as if it were used
UnusedOnlyKeyed(rows, used) ==
    SelectRows(rows, {r \in Range(rows) :
        ~IsNone(_game_used_key(Game(r))) /\ Get(_game_used_key(Game(r))) \notin used})

UnusedOnly(rows, used) ==
    SelectRows(rows, {r \in Range(rows) :
        IsNone(_game_used_key(Game(r))) \/ Get(_game_used_key(Game(r))) \notin used})

\* as BlockFiltered, but without the discount filter
BlockFilteredNoDiscount(b, pl, cur) ==
    apply_price_filter(
        _apply_tags_filter(
            _apply_developer_filter(
                _apply_publisher_filter(pl, Strip(OrEmpty(b.publisher))),
                Strip(OrEmpty(b.developer))),
            Strip(OrEmpty(b.tags))),
        Strip(OrEmpty(b.price_value)), cur)

\* lines 370-376 and 397-403: the block's own filters, then the used set
BlockFiltered(b, pl, cur) ==
    apply_discount_filter(
        apply_price_filter(
            _apply_tags_filter(
                _apply_developer_filter(
                    _apply_publisher_filter(pl, Strip(OrEmpty(b.publisher))),
                    Strip(OrEmpty(b.developer))),
                Strip(OrEmpty(b.tags))),
            Strip(OrEmpty(b.price_value)), cur),
        Strip(OrEmpty(b.discount_value)))

Candidates(b, pl, cur, used) == UnusedOnly(BlockFiltered(b, pl, cur), used)

\* which branch a deal_list or featured block takes
BlockBranch(b, idx) ==
    IF BlockType(b) = DealList
    THEN IF OrEmpty(b.override_urls) # <<>> /\ ~IsNone(idx) THEN "override_urls"
         ELSE IF OrEmpty(b.override_steam_ids) # <<>> THEN "override_steam_ids"
         ELSE "sample"
    ELSE IF Strip(OrEmpty(b.override_url)) # <<>> /\ ~IsNone(idx) THEN "override_url"
         ELSE IF ~IsNone(b.override_steam_id) THEN "override_steam_id"
         ELSE "sample"

\* n of the _weighted_sample call: None when int() raises
SampleCount(b) ==
    IF BlockType(b) = DealList
    THEN IF IsNone(GamesCount(b.games_count)) THEN None
         ELSE Some(Max2(0, Get(GamesCount(b.games_count))))
    ELSE Some(1)

\* as OverrideRows, but a URL override takes the products of the index themselves
OverrideRowsOfIndex(b, pl, idx) ==
    LET br == BlockBranch(b, idx)
    IN  CASE br = "override_urls" ->
               resolve_urls_to_products(Get(idx), Get(b.override_urls))
          [] br = "override_steam_ids" ->
               Present([k \in 1..Len(Get(b.override_steam_ids)) |->
                           IdToGame(pl, Get(b.override_steam_ids)[k])])
          [] br = "override_url" ->
               LET ps == resolve_urls_to_products(Get(idx), <<Strip(OrEmpty(b.override_url))>>)
               IN  SubSeq(ps, 1, Min2(1, Len(ps)))
          [] br = "override_steam_id" ->
               LET found == SelectRows(pl, {r \in Range(pl) :
                                Game(r).steam_app_id = b.override_steam_id})
               IN  SubSeq(found, 1, Min2(1, Len(found)))

\* the rows of an overridden block
OverrideRows(b, pl, idx) ==
    LET br == BlockBranch(b, idx)
    IN  CASE br = "override_urls" ->
               LET ps == resolve_urls_to_products(Get(idx), Get(b.override_urls))
               IN  Present([k \in 1..Len(ps) |-> LinkToGame(pl, LinkKey(ps[k]))])
          [] br = "override_steam_ids" ->
               Present([k \in 1..Len(Get(b.override_steam_ids)) |->
                           IdToGame(pl, Get(b.override_steam_ids)[k])])
          [] br = "override_url" ->
               LET ps == resolve_urls_to_products(Get(idx), <<Strip(OrEmpty(b.override_url))>>)
               IN  IF ps # <<>> /\ ~IsNone(LinkToGame(pl, LinkKey(ps[1])))
                   THEN <<Get(LinkToGame(pl, LinkKey(ps[1])))>> ELSE <<>>
          [] br = "override_steam_id" ->
               LET found == SelectRows(pl, {r \in Range(pl) :
                                Game(r).steam_app_id = b.override_steam_id})
               IN  SubSeq(found, 1, Min2(1, Len(found)))

\* every list result[i] can be set to, over all draws of the sampler
BlockRows(b, pl, idx, cur, used) ==
    IF BlockBranch(b, idx) # "sample" THEN {OverrideRows(b, pl, idx)}
    ELSE LET filtered == Candidates(b, pl, cur, used)
             n == Get(SampleCount(b))
         IN  {[k \in 1..Len(out) |-> filtered[out[k]]] :
                 out \in WS_Outcomes(WS_Start(filtered, n), n)}

\* the keys the loops at lines 379-382 and 405-408 add
\* as KeysOf, but of the first row only
KeysOfFirstRow(rows) ==
    {Get(_game_used_key(Game(rows[k]))) :
        k \in {j \in 1..Min2(1, Len(rows)) : ~IsNone(_game_used_key(Game(rows[j])))}}

KeysOf(rows) ==
    {Get(_game_used_key(Game(rows[k]))) :
        k \in {j \in 1..Len(rows) : ~IsNone(_game_used_key(Game(rows[j])))}}

----------------------------------------------------------------------------
(* A filter call, as a state records it *)

\* the call a state records: the filter, its filter_type, its text, its label, its currency
Call(filter, type, value, label, cur) ==
    [filter |-> filter, type |-> type, value |-> value, label |-> label, currency |-> cur]

NoCall == Call("", "", <<>>, "", "")

IdleFilter ==
    /\ f_rows = <<>>
    /\ f_call = NoCall
    /\ f_out = <<>>

IdleGui ==
    /\ _worker_busy = FALSE
    /\ _worker_queue = <<>>
    /\ workers = <<>>
    /\ polls = 0
    /\ gui = <<>>

IdleHtml ==
    /\ pool_idx = 0
    /\ bh = <<>>

IdleScore ==
    /\ sc_row = <<>>
    /\ sc_out = None

----------------------------------------------------------------------------
(* Specification of one _weighted_sample call *)

MaxItems == 3

\* lists of rows, repeated rows included
RECURSIVE SeqsUpTo(_, _)
SeqsUpTo(S, n) ==
    IF n = 0 THEN {<<>>}
    ELSE LET shorter == SeqsUpTo(S, n - 1)
         IN  shorter \cup {Append(s, x) : s \in {t \in shorter : Len(t) = n - 1}, x \in S}

SampleItems == {1, 3, 5}

IdleSample ==
    /\ ws_games = <<>>
    /\ ws_n = 0
    /\ ws = [pc |-> "idle", work |-> <<>>, out |-> <<>>, k |-> 0]

IdleAlloc ==
    /\ threads = {}
    /\ blocks = <<>>
    /\ pool = <<>>
    /\ index = None
    /\ currency = ""
    /\ run = <<>>

InitSample ==
    /\ IdleGui
    /\ IdleHtml
    /\ IdleFilter
    /\ IdleScore
    /\ ws_games \in SeqsUpTo(SampleItems, MaxItems)
    /\ ws_n \in -1..(MaxItems + 1)
    /\ ws = [pc |-> "call", work |-> <<>>, out |-> <<>>, k |-> 0]
    /\ IdleAlloc

SampleCall ==
    /\ ws.pc = "call"
    /\ ws' = WS_Start(ws_games, ws_n)
    /\ UNCHANGED <<ws_games, ws_n>>
    /\ UNCHANGED allocVars
    /\ UNCHANGED filterVars
    /\ UNCHANGED scoreVars
    /\ UNCHANGED <<guiVars, htmlVars>>

SampleIter ==
    /\ ws.pc = "loop"
    /\ ~WS_LoopEnds(ws, ws_n)
    /\ \E r \in Draws(ws.work) : ws' = WS_Iter(ws, r)
    /\ UNCHANGED <<ws_games, ws_n>>
    /\ UNCHANGED allocVars
    /\ UNCHANGED filterVars
    /\ UNCHANGED scoreVars
    /\ UNCHANGED <<guiVars, htmlVars>>

SampleReturn ==
    /\ ws.pc = "loop"
    /\ WS_LoopEnds(ws, ws_n)
    /\ ws' = [ws EXCEPT !.pc = "return"]
    /\ UNCHANGED <<ws_games, ws_n>>
    /\ UNCHANGED allocVars
    /\ UNCHANGED filterVars
    /\ UNCHANGED scoreVars
    /\ UNCHANGED <<guiVars, htmlVars>>

NextSample == SampleCall \/ SampleIter \/ SampleReturn

SpecSample == InitSample /\ [][NextSample]_vars

\* the call runs to its return: a sequential function, no step of it waits
SpecSampleLive == InitSample /\ [][NextSample]_vars /\ WF_vars(NextSample)

----------------------------------------------------------------------------
(* Specification of _email_block_games: the calls of the threads in        *)
(* `threads`, interleaved block by block.  Every call has its own frame.   *)

MaxBlocks == 2
MaxPool == 4

\* the rows in the order the pools take them
PoolOrder == <<1, 5, 2, 4, 3, 6>>
Pools == {SubSeq(PoolOrder, 1, k) : k \in 0..Min2(MaxPool, Len(PoolOrder))}

\* the product index: the products of the feed (those with a link)
ProductIndex == {p \in GameIds : IndexKey(p) # <<>>}

PlainBlock(type, gc) == Block(type, gc, None, None, None, None, None)

BlockChoices == {
    PlainBlock(Some(DealList), GcInt(1)),
    PlainBlock(Some(DealList), GcInt(3)),
    Block(Some(<<" ", "D", "e", "a", "l", "_", "L", "i", "s", "t", " ">>), GcAbsent,
          Some(<<"B", " ">>), None, None, None, None),
    PlainBlock(Some(Featured), GcAbsent),
    Block(Some(<<"F", "E", "A", "T", "U", "R", "E", "D">>), GcAbsent,
          None, None, None, None, Some(<<">", "=", " ", "5", "0">>)),
    PlainBlock(Some(<<"t", "e", "x", "t">>), GcAbsent),
    PlainBlock(None, GcInt(2)),
    Block(Some(DealList), GcInt(0), None, Some(<<"x">>), Some(<<"R", "P">>),
          Some(<<"<", "9", ".", "5">>), None),
    PlainBlock(Some(DealList), GcInt(-1)),
    PlainBlock(Some(DealList), GcStr(<<"a", "b", "c">>)),
    [PlainBlock(Some(DealList), GcInt(2)) EXCEPT
        !.override_urls = Some(<< <<"a", "/">>, <<"b">>, <<"z">> >>)],
    [PlainBlock(Some(Featured), GcAbsent) EXCEPT !.override_steam_id = Some(7)] }

Frame0 == [pc |-> "call", i |-> 0, used |-> {}, result |-> <<>>]

InitAlloc ==
    /\ IdleGui
    /\ IdleHtml
    /\ IdleFilter
    /\ IdleScore
    /\ threads = {"worker"}
    /\ blocks \in SeqsUpTo(BlockChoices, MaxBlocks)
    /\ pool \in Pools
    /\ index \in {None, Some(ProductIndex)}
    /\ currency = "USD"
    /\ run = [t \in threads |-> Frame0]
    /\ IdleSample

\* lines 351-353: result = [None] * len(blocks); used = set()
CallBy(t) ==
    /\ run[t].pc = "call"
    /\ run' = [run EXCEPT ![t] = [pc |-> "loop", i |-> 1, used |-> {},
                                  result |-> [k \in 1..Len(blocks) |-> None]]]

\* used: set = set() is a local of the call, read at lines 376 and 403
UsedShared(t) == UNION {run[u].used : u \in threads}

UsedOf(t) == run[t].used

\* one pass of for i, block in enumerate(blocks)
BlockBy(t) ==
    LET f == run[t]
        b == blocks[f.i]
    IN  /\ f.pc = "loop"
        /\ f.i <= Len(blocks)
        /\ IF BlockType(b) \notin {DealList, Featured}
           THEN run' = [run EXCEPT ![t].i = f.i + 1]
           ELSE IF BlockBranch(b, index) = "sample" /\ IsNone(SampleCount(b))
           THEN run' = [run EXCEPT ![t].pc = "raised"]
           ELSE \E rows \in BlockRows(b, pool, index, currency, UsedOf(t)) :
                    run' = [run EXCEPT ![t].i = f.i + 1,
                                       ![t].result[f.i] = Some(rows),
                                       ![t].used = UsedOf(t) \cup KeysOf(rows)]

\* line 409: return result
ReturnBy(t) ==
    /\ run[t].pc = "loop"
    /\ run[t].i > Len(blocks)
    /\ run' = [run EXCEPT ![t].pc = "done"]

AllocCall ==
    /\ \E t \in threads : CallBy(t)
    /\ UNCHANGED <<threads, blocks, pool, index, currency>>
    /\ UNCHANGED sampleVars
    /\ UNCHANGED filterVars
    /\ UNCHANGED scoreVars
    /\ UNCHANGED <<guiVars, htmlVars>>

AllocBlock ==
    /\ \E t \in threads : BlockBy(t)
    /\ UNCHANGED <<threads, blocks, pool, index, currency>>
    /\ UNCHANGED sampleVars
    /\ UNCHANGED filterVars
    /\ UNCHANGED scoreVars
    /\ UNCHANGED <<guiVars, htmlVars>>

AllocReturn ==
    /\ \E t \in threads : ReturnBy(t)
    /\ UNCHANGED <<threads, blocks, pool, index, currency>>
    /\ UNCHANGED sampleVars
    /\ UNCHANGED filterVars
    /\ UNCHANGED scoreVars
    /\ UNCHANGED <<guiVars, htmlVars>>

NextAlloc == AllocCall \/ AllocBlock \/ AllocReturn

SpecAlloc == InitAlloc /\ [][NextAlloc]_vars

\* two calls at once: the e-mail build worker (line 126) and Update preview on the
\* main thread (line 1245), on the same blocks and pool
ConcurrentBlockChoices == {
    PlainBlock(Some(DealList), GcInt(1)),
    Block(Some(<<" ", "D", "e", "a", "l", "_", "L", "i", "s", "t", " ">>), GcAbsent,
          Some(<<"B", " ">>), None, None, None, None),
    PlainBlock(Some(Featured), GcAbsent),
    PlainBlock(Some(<<"t", "e", "x", "t">>), GcAbsent) }

InitAlloc2 ==
    /\ IdleGui
    /\ IdleHtml
    /\ IdleFilter
    /\ IdleScore
    /\ threads = {"worker", "main"}
    /\ blocks \in SeqsUpTo(ConcurrentBlockChoices, MaxBlocks)
    /\ pool \in Pools
    /\ index = Some(ProductIndex)
    /\ currency = "USD"
    /\ run = [t \in threads |-> Frame0]
    /\ IdleSample

SpecAlloc2 == InitAlloc2 /\ [][NextAlloc]_vars

----------------------------------------------------------------------------
(* Specification of one filter call: the criteria the controls can hold *)

MaxRows == 4

\* the sublists of a list, in its order
RECURSIVE SubLists(_)
SubLists(s) ==
    IF s = <<>> THEN {<<>>}
    ELSE LET rest == SubLists(Tail(s))
         IN  rest \cup {<<Head(s)>> \o t : t \in rest}

\* the rows argument: rows of the table in two orders
RowOrders == {<<1, 2, 3, 4, 5, 6, 7>>, <<7, 6, 4, 3, 5, 2, 1>>}
FilterRows == {s \in UNION {SubLists(o) : o \in RowOrders} : Len(s) <= MaxRows}

\* empty and whitespace-only text
EmptyTexts == {
    <<>>, <<" ">>, <<" ", "\t">> }

\* operator and integer
OpIntTexts == {
    <<">", "7", "5">>, <<">", "=", "7", "5">>, <<"<", "7", "5">>,
    <<"<", "=", "7", "5">>, <<"=", "=", "7", "5">>, <<"!", "=", "7", "5">>,
    <<"=", "7", "5">>, <<" ", ">", "=", " ", "5", "0", " ">>,
    <<"<", "=", " ", "1", "0">>, <<"=", "=", "5", "0">> }

\* text that is no operator and integer
MalformedOpIntTexts == {
    <<"7", "5">>, <<"a", "b", "c">>, <<">">>, <<">", "7", ".", "5">>,
    <<">", ">", "7", "5">>, <<"7", "5", ">">>, <<">", " ", "-", "5">>,
    <<"=", ">", "7", "5">> }

\* text int() reads
IntTexts == {
    <<"7", "5">>, <<" ", "7", "6", " ">>, <<"1", "0">>, <<"+", "1">>, <<"0">>,
    <<"-", "5">> }

\* text int() rejects
MalformedIntTexts == {
    <<"a", "b", "c">>, <<"7", ".", "5">>, <<"1", "e", "3">>, <<">", "7", "5">>,
    <<"7", " ", "5">>, <<"-">> }

\* operator and decimal
OpDecimalTexts == {
    <<"<", "6">>, <<"<", "=", "5">>, <<">", "2", ".", "5">>, <<"=", "=", "9">>,
    <<"!", "=", "1">>, <<"=", "7">>, <<"<", " ", "9", ".", "5", "0">>,
    <<">", "=", "2", ".", "5", "0">> }

\* text that is no operator and decimal
MalformedOpDecimalTexts == {
    <<"6">>, <<"<">>, <<"<", "6", ".">>, <<"<", ".", "5">>, <<"a", "b", "c">>,
    <<"<", "6", ",", "5">>, <<"<", "6", ".", "5", ".", "1">> }

\* operator and date
OpDateTexts == {
    <<"<", "2", "0", "2", "6", "-", "0", "3", "-", "0", "1">>,
    <<"<", "=", "2", "0", "2", "6", "-", "0", "2", "-", "2", "8">>,
    <<">", "2", "0", "2", "6", "-", "0", "2", "-", "1", "5">>,
    <<">", "=", "2", "0", "2", "6", "-", "0", "2", "-", "1", "5">>,
    <<"=", "=", "2", "0", "2", "6", "-", "0", "2", "-", "1", "5">>,
    <<"!", "=", "2", "0", "2", "6", "-", "0", "2", "-", "1", "5">>,
    <<"=", "2", "0", "2", "6", "-", "0", "2", "-", "1", "5">>,
    <<">", "=", " ", "2", "0", "2", "6", "-", "0", "3", "-", "0", "1", " ">>,
    <<"<", "2", "0", "1", "2", "-", "0", "8", "-", "2", "1">>,
    <<">", "=", "2", "0", "1", "2", "-", "0", "8", "-", "2", "1">> }

\* date range
RangeTexts == {
    <<"2", "0", "2", "6", "-", "0", "2", "-", "0", "1", ".", ".", "2", "0", "2", "6", "-", "0", "2", "-", "2", "8">>,
    <<"2", "0", "2", "6", "-", "0", "2", "-", "1", "5", " ", "t", "o", " ", "2", "0", "2", "6", "-", "0", "3", "-", "0", "1">>,
    <<"2", "0", "2", "6", "-", "0", "2", "-", "1", "5", ".", ".", "2", "0", "2", "6", "-", "0", "2", "-", "1", "5">>,
    <<"2", "0", "2", "6", "-", "0", "2", "-", "0", "1", " ", "T", "O", " ", "2", "0", "2", "6", "-", "0", "2", "-", "2", "8">>,
    <<"2", "0", "1", "2", "-", "0", "1", "-", "0", "1", ".", ".", "2", "0", "2", "6", "-", "0", "2", "-", "1", "5">> }

\* text that is no date expression, or holds no calendar date, or an inverted range
MalformedDateTexts == {
    <<"2", "0", "2", "6", "-", "0", "2", "-", "2", "8", ".", ".", "2", "0", "2", "6", "-", "0", "2", "-", "0", "1">>,
    <<"2", "0", "2", "6", "-", "1", "3", "-", "0", "1", ".", ".", "2", "0", "2", "6", "-", "1", "2", "-", "0", "1">>,
    <<"<", "2", "0", "2", "6", "-", "0", "2", "-", "3", "0">>,
    <<"2", "0", "2", "6", "-", "0", "2", "-", "1", "5">>,
    <<"<", "2", "0", "2", "6", "-", "2", "-", "1", "5">>, <<"s", "o", "o", "n">>,
    <<"2", "0", "2", "6", "-", "0", "2", "-", "0", "1", ".", ".", ".", "2", "0", "2", "6", "-", "0", "2", "-", "2", "8">>,
    <<"<">>, <<"<", "0", "0", "0", "0", "-", "0", "1", "-", "0", "1">>,
    <<"2", "0", "2", "6", "-", "0", "2", "-", "0", "1", ".", ".">>,
    <<"2", "0", "2", "6", "-", "0", "2", "-", "0", "1", "-", "2", "0", "2", "6", "-", "0", "2", "-", "2", "8">>,
    <<"<", "=", "2", "0", "2", "5", "-", "0", "2", "-", "2", "9">> }

\* text queries
QueryTexts == {
    <<"a">>, <<"B", " ">>, <<"x">>, <<"R", "P">>, <<"z", "z">>, <<" ", "A">> }

ScoreValues ==
    EmptyTexts \cup OpIntTexts \cup MalformedOpIntTexts \cup IntTexts \cup MalformedIntTexts
LabelValues == {"", "Very Positive", "Mostly Positive", "Positive", "Mixed"}
DateValues == EmptyTexts \cup OpDateTexts \cup RangeTexts \cup MalformedDateTexts

InitFilter ==
    /\ IdleGui
    /\ IdleHtml
    /\ IdleScore
    /\ f_rows \in FilterRows
    /\ f_call = NoCall
    /\ f_out = <<>>
    /\ IdleSample
    /\ IdleAlloc

\* the score controls: a type, and the value or the label that type reads
ScoreCalls ==
    {Call("score", t, v, l, "") :
        t \in {"", "All", "Percent"}, v \in {<<>>, <<">", "7", "5">>},
        l \in {"", "Very Positive"}}
    \cup {Call("score", t, v, "", "") : t \in {"Exact %", "Operator"}, v \in ScoreValues}
    \cup {Call("score", "Label", <<>>, l, "") : l \in LabelValues}

ApplyScore ==
    /\ f_call = NoCall
    /\ \E c \in ScoreCalls :
        /\ f_call' = c
        /\ f_out' = apply_score_filter(f_rows, c.type, c.value, c.label)
    /\ UNCHANGED <<f_rows, sampleVars, allocVars, scoreVars, guiVars, htmlVars>>

ApplyReviews ==
    /\ f_call = NoCall
    /\ \E v \in EmptyTexts \cup IntTexts \cup MalformedIntTexts :
        /\ f_call' = Call("reviews", "", v, "", "")
        /\ f_out' = apply_reviews_filter(f_rows, v)
    /\ UNCHANGED <<f_rows, sampleVars, allocVars, scoreVars, guiVars, htmlVars>>

ApplyDiscount ==
    /\ f_call = NoCall
    /\ \E v \in EmptyTexts \cup OpIntTexts \cup MalformedOpIntTexts :
        /\ f_call' = Call("discount", "", v, "", "")
        /\ f_out' = apply_discount_filter(f_rows, v)
    /\ UNCHANGED <<f_rows, sampleVars, allocVars, scoreVars, guiVars, htmlVars>>

ApplyPrice ==
    /\ f_call = NoCall
    /\ \E v \in EmptyTexts \cup OpDecimalTexts \cup MalformedOpDecimalTexts,
          cur \in {"USD", "EUR", "GBP"} :
        /\ f_call' = Call("price", "", v, "", cur)
        /\ f_out' = apply_price_filter(f_rows, v, cur)
    /\ UNCHANGED <<f_rows, sampleVars, allocVars, scoreVars, guiVars, htmlVars>>

SaleEndCalls ==
    {Call("sale_end", t, v, "", "") :
        t \in {"", "All", "Ending Soon", "Ending Latest", "Today"},
        v \in {<<>>, <<"<", "2", "0", "2", "6", "-", "0", "3", "-", "0", "1">>}}
    \cup {Call("sale_end", "By date", v, "", "") : v \in DateValues}

ApplySaleEnd ==
    /\ f_call = NoCall
    /\ \E c \in SaleEndCalls :
        /\ f_call' = c
        /\ f_out' = apply_sale_end_filter(f_rows, c.type, c.value)
    /\ UNCHANGED <<f_rows, sampleVars, allocVars, scoreVars, guiVars, htmlVars>>

ReleaseDateCalls ==
    {Call("release_date", t, v, "", "") :
        t \in {"", "All", "Newest", "Oldest", "Today"},
        v \in {<<>>, <<"<", "2", "0", "2", "6", "-", "0", "3", "-", "0", "1">>}}
    \cup {Call("release_date", "By date", v, "", "") : v \in DateValues}

ApplyReleaseDate ==
    /\ f_call = NoCall
    /\ \E c \in ReleaseDateCalls :
        /\ f_call' = c
        /\ f_out' = _apply_release_date_filter(f_rows, c.type, c.value)
    /\ UNCHANGED <<f_rows, sampleVars, allocVars, scoreVars, guiVars, htmlVars>>

ApplyGameSearch ==
    /\ f_call = NoCall
    /\ \E v \in EmptyTexts \cup QueryTexts :
        /\ f_call' = Call("title", "", v, "", "")
        /\ f_out' = _apply_game_search_filter(f_rows, v)
    /\ UNCHANGED <<f_rows, sampleVars, allocVars, scoreVars, guiVars, htmlVars>>

ApplyPublisher ==
    /\ f_call = NoCall
    /\ \E v \in EmptyTexts \cup QueryTexts :
        /\ f_call' = Call("publisher", "", v, "", "")
        /\ f_out' = _apply_publisher_filter(f_rows, v)
    /\ UNCHANGED <<f_rows, sampleVars, allocVars, scoreVars, guiVars, htmlVars>>

ApplyDeveloper ==
    /\ f_call = NoCall
    /\ \E v \in EmptyTexts \cup QueryTexts :
        /\ f_call' = Call("developer", "", v, "", "")
        /\ f_out' = _apply_developer_filter(f_rows, v)
    /\ UNCHANGED <<f_rows, sampleVars, allocVars, scoreVars, guiVars, htmlVars>>

ApplyTags ==
    /\ f_call = NoCall
    /\ \E v \in EmptyTexts \cup QueryTexts :
        /\ f_call' = Call("tags", "", v, "", "")
        /\ f_out' = _apply_tags_filter(f_rows, v)
    /\ UNCHANGED <<f_rows, sampleVars, allocVars, scoreVars, guiVars, htmlVars>>

NextFilter ==
    \/ ApplyScore
    \/ ApplyReviews
    \/ ApplyDiscount
    \/ ApplyPrice
    \/ ApplySaleEnd
    \/ ApplyReleaseDate
    \/ ApplyGameSearch
    \/ ApplyPublisher
    \/ ApplyDeveloper
    \/ ApplyTags

SpecFilter == InitFilter /\ [][NextFilter]_vars

----------------------------------------------------------------------------
(* Specification of one parse_sale_end_value call.  f_call.value is the    *)
(* text, f_out the tuple (mode, a, b) the call returns.                    *)

Years == {<<"2", "0", "2", "6">>, <<"2", "0", "2", "4">>, <<"0", "0", "0", "0">>}
Months == {<<"0", "0">>, <<"0", "2">>, <<"1", "2">>, <<"1", "3">>}
Days == {<<"0", "1">>, <<"2", "8">>, <<"2", "9">>, <<"3", "0">>, <<"3", "1">>, <<"3", "2">>}
Operators == {<<"<">>, <<"<", "=">>, <<">">>, <<">", "=">>, <<"=", "=">>, <<"!", "=">>, <<"=">>}
Separators == {<<".", ".">>, <<" ", "t", "o", " ">>, <<" ", ".", ".", " ">>, <<"T", "O">>}

DateText(y, mo, d) == y \o <<"-">> \o mo \o <<"-">> \o d

\* the dates the ranges are made of
RangeDates == {
    DateText(<<"2", "0", "2", "6">>, <<"0", "2">>, <<"0", "1">>),
    DateText(<<"2", "0", "2", "6">>, <<"0", "2">>, <<"2", "9">>),
    DateText(<<"2", "0", "2", "4">>, <<"0", "2">>, <<"2", "9">>),
    DateText(<<"2", "0", "2", "6">>, <<"1", "2">>, <<"3", "1">>),
    DateText(<<"2", "0", "2", "6">>, <<"1", "3">>, <<"0", "1">>) }

ParseTexts ==
    EmptyTexts \cup MalformedDateTexts
    \cup {op \o DateText(y, mo, d) : op \in Operators, y \in Years, mo \in Months, d \in Days}
    \cup {d1 \o sep \o d2 : d1 \in RangeDates, sep \in Separators, d2 \in RangeDates}

InitParse ==
    /\ IdleGui
    /\ IdleHtml
    /\ IdleScore
    /\ f_rows = <<>>
    /\ f_call \in {Call("parse_sale_end_value", "", v, "", "") : v \in ParseTexts}
    /\ f_out = <<>>
    /\ IdleSample
    /\ IdleAlloc

ParseCall ==
    /\ f_out = <<>>
    /\ f_out' = parse_sale_end_value(f_call.value)
    /\ UNCHANGED <<f_rows, f_call, sampleVars, allocVars, scoreVars, guiVars, htmlVars>>

NextParse == ParseCall

SpecParse == InitParse /\ [][NextParse]_vars

----------------------------------------------------------------------------
(* Specification of one apply_deal_filters call.  f_call holds the keyword *)
(* arguments.                                                              *)

\* as apply_deal_filters, without the min-reviews filter
DealFiltersNoReviews(rows, p) ==
    apply_sale_end_filter(
        apply_price_filter(
            apply_discount_filter(
                apply_score_filter(rows, p.score_type, p.score_value, p.label_value),
                p.discount_value),
            p.price_value, p.currency),
        p.sale_end_type, p.sale_end_value)

apply_deal_filters(rows, p) ==
    apply_sale_end_filter(
        apply_price_filter(
            apply_discount_filter(
                apply_reviews_filter(
                    apply_score_filter(rows, p.score_type, p.score_value, p.label_value),
                    p.min_reviews),
                p.discount_value),
            p.price_value, p.currency),
        p.sale_end_type, p.sale_end_value)

\* the arguments the two callers build from the controls
DealParams ==
    {[filter |-> "deal_filters",
      score_type |-> sc[1], score_value |-> sc[2], label_value |-> sc[3],
      min_reviews |-> mr, discount_value |-> dv, price_value |-> pv, currency |-> cur,
      sale_end_type |-> se[1], sale_end_value |-> se[2]] :
        sc \in {<<"All", <<>>, "">>, <<"Operator", <<">", "=", "7", "5">>, "">>,
                <<"Label", <<>>, "Mostly Positive">>},
        mr \in {<<>>, <<"1", "0">>},
        dv \in {<<>>, <<">", "=", "4", "0">>, <<"a", "b", "c">>},
        pv \in {<<>>, <<"<", "9", ".", "5">>},
        cur \in {"USD", "EUR"},
        se \in {<<"All", <<>> >>, <<"Ending Soon", <<>> >>, <<"Ending Latest", <<>> >>,
                <<"By date", <<"<", "2", "0", "2", "6", "-", "0", "3", "-", "0", "1">>>>, <<"By date", <<"s", "o", "o", "n">>>>}}

InitDeals ==
    /\ IdleGui
    /\ IdleHtml
    /\ IdleScore
    /\ f_rows \in FilterRows
    /\ f_call = NoCall
    /\ f_out = <<>>
    /\ IdleSample
    /\ IdleAlloc

ApplyDealFilters ==
    /\ f_call = NoCall
    /\ \E p \in DealParams :
        /\ f_call' = p
        /\ f_out' = apply_deal_filters(f_rows, p)
    /\ UNCHANGED <<f_rows, sampleVars, allocVars, scoreVars, guiVars, htmlVars>>

NextDeals == ApplyDealFilters

SpecDeals == InitDeals /\ [][NextDeals]_vars

----------------------------------------------------------------------------
(* The background operations of the application: the three requests on    *)
(* the main thread, the worker threads, and _process_worker_queue.        *)

MaxStarts == 2
MaxProgress == 2

Ops == {"load_feed", "fetch_on_sale", "email_build"}

\* a message on the queue, with the worker that put it
Msg(kind, op, w) == [kind |-> kind, op |-> op, w |-> w]

\* a worker thread: the messages it is still to put before its last, and the
\* kinds of the messages it has put
Worker(op, left) == [op |-> op, pc |-> "run", left |-> left, sent |-> <<>>]

NoRequest == [op |-> "", outcome |-> ""]

\* the progress messages of a worker that runs to its end: load_feed puts none
ProgressCounts(op) == IF op = "load_feed" THEN {0} ELSE 1..MaxProgress

\* as Request, without the test of self._worker_busy
RequestNoBusyTest(op) ==
    IF op # "load_feed" /\ ~gui._index
    THEN /\ gui' = [gui EXCEPT !.request = [op |-> op, outcome |-> "no index"]]
         /\ UNCHANGED <<_worker_busy, _worker_queue, workers, polls>>
    ELSE /\ Len(workers) < MaxStarts
         /\ _worker_busy' = TRUE
         /\ polls' = polls + 1
         /\ \E n \in ProgressCounts(op) : workers' = Append(workers, Worker(op, n))
         /\ gui' = [gui EXCEPT !.request = [op |-> op, outcome |-> "started"]]
         /\ UNCHANGED _worker_queue

\* _load_feed, _fetch_on_sale, _email_build_preview: the two early returns, then
\* self._worker_busy = True, root.after(50, ...), threading.Thread(...).start()
Request(op) ==
    IF _worker_busy
    THEN /\ gui' = [gui EXCEPT !.request = [op |-> op, outcome |-> "busy"]]
         /\ UNCHANGED <<_worker_busy, _worker_queue, workers, polls>>
    ELSE IF op # "load_feed" /\ ~gui._index
    THEN /\ gui' = [gui EXCEPT !.request = [op |-> op, outcome |-> "no index"]]
         /\ UNCHANGED <<_worker_busy, _worker_queue, workers, polls>>
    ELSE /\ Len(workers) < MaxStarts
         /\ _worker_busy' = TRUE
         /\ polls' = polls + 1
         /\ \E n \in ProgressCounts(op) : workers' = Append(workers, Worker(op, n))
         /\ gui' = [gui EXCEPT !.request = [op |-> op, outcome |-> "started"]]
         /\ UNCHANGED _worker_queue

\* worker w puts a message
Put(w, kind) ==
    /\ _worker_queue' = Append(_worker_queue, Msg(kind, workers[w].op, w))
    /\ workers' = [workers EXCEPT ![w].sent = Append(@, kind),
                                  ![w].left = IF kind = "progress" THEN @ - 1 ELSE @,
                                  ![w].pc = IF kind = "progress" THEN "run" ELSE "ended"]

\* as Drain, but the error branch leaves self._worker_busy as it is
RECURSIVE DrainErrorKeepsBusy(_, _)
DrainErrorKeepsBusy(q, st) ==
    IF q = <<>> THEN [rest |-> q, busy |-> st.busy, index |-> st.index, raised |-> FALSE]
    ELSE LET msg == Head(q)
         IN  IF msg.kind = "progress" THEN DrainErrorKeepsBusy(Tail(q), st)
             ELSE IF msg.kind = "error" THEN DrainErrorKeepsBusy(Tail(q), st)
             ELSE IF msg.op = "load_feed"
             THEN DrainErrorKeepsBusy(Tail(q), [st EXCEPT !.busy = FALSE, !.index = TRUE])
             ELSE IF msg.op = "email_build" /\ st.index /\ st.blocks_raise
             THEN [rest |-> Tail(q), busy |-> st.busy, index |-> st.index, raised |-> TRUE]
             ELSE DrainErrorKeepsBusy(Tail(q), [st EXCEPT !.busy = FALSE])

\* the while True loop of _process_worker_queue: the messages taken one by one
\* until queue.Empty.  The done branch of email_build calls _email_block_games
\* on self._email_blocks (line 1327) before it resets _worker_busy (line 1344):
\* when that call raises, the handler is left with the flag as it was.
RECURSIVE Drain(_, _)
Drain(q, st) ==
    IF q = <<>> THEN [rest |-> q, busy |-> st.busy, index |-> st.index, raised |-> FALSE]
    ELSE LET msg == Head(q)
         IN  IF msg.kind = "progress" THEN Drain(Tail(q), st)
             ELSE IF msg.kind = "error" THEN Drain(Tail(q), [st EXCEPT !.busy = FALSE])
             ELSE IF msg.op = "load_feed"
             THEN Drain(Tail(q), [st EXCEPT !.busy = FALSE, !.index = TRUE])
             ELSE IF msg.op = "email_build" /\ st.index /\ st.blocks_raise
             THEN [rest |-> Tail(q), busy |-> st.busy, index |-> st.index, raised |-> TRUE]
             ELSE Drain(Tail(q), [st EXCEPT !.busy = FALSE])

InitGui ==
    /\ IdleHtml
    /\ IdleFilter
    /\ IdleScore
    /\ IdleSample
    /\ IdleAlloc
    /\ _worker_busy = FALSE
    /\ _worker_queue = <<>>
    /\ workers = <<>>
    /\ polls = 0
    /\ gui = [_index |-> FALSE, blocks_raise |-> FALSE, request |-> NoRequest]

Others == <<sampleVars, allocVars, filterVars, scoreVars, htmlVars>>

LoadFeed ==
    /\ Request("load_feed")
    /\ UNCHANGED Others

FetchOnSale ==
    /\ Request("fetch_on_sale")
    /\ UNCHANGED Others

EmailBuildPreview ==
    /\ Request("email_build")
    /\ UNCHANGED Others

\* _email_load_template replaces self._email_blocks at any time; a template file
\* can hold a games_count that int() rejects, and then _email_block_games raises
LoadTemplate ==
    /\ gui' = [gui EXCEPT !.blocks_raise = ~@]
    /\ UNCHANGED <<_worker_busy, _worker_queue, workers, polls>>
    /\ UNCHANGED Others

\* a worker puts a progress message
WorkerProgress ==
    /\ \E w \in 1..Len(workers) :
        /\ workers[w].pc = "run"
        /\ workers[w].left > 0
        /\ Put(w, "progress")
    /\ UNCHANGED <<_worker_busy, polls, gui>>
    /\ UNCHANGED Others

\* the last statement of a try body: put(("done", op, ...)).  The try body of
\* _email_build_worker does not reach it: line 154 calls build_email_html with
\* block_games=..., which email_html.build_email_html does not take (TypeError)
WorkerDone ==
    /\ \E w \in 1..Len(workers) :
        /\ workers[w].pc = "run"
        /\ workers[w].left = 0
        /\ workers[w].op # "email_build"
        /\ Put(w, "done")
    /\ UNCHANGED <<_worker_busy, polls, gui>>
    /\ UNCHANGED Others

\* except Exception as e: put(("error", op, e)), from any statement of the try body
WorkerError ==
    /\ \E w \in 1..Len(workers) :
        /\ workers[w].pc = "run"
        /\ Put(w, "error")
    /\ UNCHANGED <<_worker_busy, polls, gui>>
    /\ UNCHANGED Others

\* one pending root.after callback runs _process_worker_queue
ProcessWorkerQueue ==
    /\ polls > 0
    /\ LET d == Drain(_worker_queue,
                      [busy |-> _worker_busy, index |-> gui._index,
                       blocks_raise |-> gui.blocks_raise])
       IN  /\ _worker_queue' = d.rest
           /\ _worker_busy' = d.busy
           /\ gui' = [gui EXCEPT !._index = d.index]
           /\ polls' = (polls - 1) + (IF ~d.raised /\ d.busy THEN 1 ELSE 0)
    /\ UNCHANGED workers
    /\ UNCHANGED Others

NextGui ==
    \/ LoadFeed
    \/ FetchOnSale
    \/ EmailBuildPreview
    \/ LoadTemplate
    \/ WorkerProgress
    \/ WorkerDone
    \/ WorkerError
    \/ ProcessWorkerQueue

SpecGui == InitGui /\ [][NextGui]_vars

\* the Tk main loop runs every pending after callback; a worker thread runs on
SpecGuiLive ==
    /\ InitGui
    /\ [][NextGui]_vars
    /\ WF_vars(ProcessWorkerQueue)
    /\ WF_vars(WorkerProgress)
    /\ WF_vars(WorkerDone)
    /\ WF_vars(WorkerError)

----------------------------------------------------------------------------
(* Specification of one build_email_html call: the walk over the blocks   *)
(* and the cursor pool_idx[0] into game_pool.                             *)

MaxHtmlBlocks == 3
MaxHtmlPool == 3

\* config["games_count"]: absent, an int, or a str that int() rejects
NoCount == [kind |-> "none", n |-> 0]
IntCount(n) == [kind |-> "int", n |-> n]
StrCount == [kind |-> "str", n |-> 0]

HtmlBlock(type, games_count, product, game_index) ==
    [type |-> type, games_count |-> games_count, product |-> product, game_index |-> game_index]

\* the block configs of a call: deal lists with each kind of games_count, a
\* featured block, a block that takes no game ("text" stands for header, title,
\* text, picture, button, footer), and game_screenshots blocks with a product,
\* with a game_index inside or outside the pool, and with neither
HtmlBlocks ==
    {HtmlBlock("deal_list", c, FALSE, None) :
        c \in {NoCount, StrCount} \cup {IntCount(n) : n \in -2..2}}
    \cup {HtmlBlock("featured", NoCount, FALSE, None), HtmlBlock("text", NoCount, FALSE, None)}
    \cup {HtmlBlock("game_screenshots", NoCount, TRUE, None)}
    \cup {HtmlBlock("game_screenshots", NoCount, FALSE, g) : g \in {None, Some(0), Some(MaxHtmlPool + 1)}}

HtmlBlockLists == UNION {[1..n -> HtmlBlocks] : n \in 0..MaxHtmlBlocks}

\* game_pool, each game standing for its position
HtmlPools == {[k \in 1..n |-> k - 1] : n \in 0..MaxHtmlPool}

\* an index of a Python slice, brought into 0..n
SliceIndex(x, n) ==
    IF x < 0 THEN (IF x + n < 0 THEN 0 ELSE x + n)
    ELSE IF x > n THEN n ELSE x

\* s[a:b] of Python
PySlice(s, a, b) ==
    LET lo == SliceIndex(a, Len(s))
        hi == SliceIndex(b, Len(s))
    IN  IF lo < hi THEN SubSeq(s, lo + 1, hi) ELSE <<>>

\* int(games_count or 4) for a value int() takes
CountOf(c) == IF c.kind = "int" /\ c.n # 0 THEN c.n ELSE 4

\* next_games(n): the new cursor and the games returned
next_games(game_pool, start, n) ==
    LET stop == IF start + n < Len(game_pool) THEN start + n ELSE Len(game_pool)
    IN  [idx |-> stop, games |-> PySlice(game_pool, start, stop)]

InitHtml ==
    /\ IdleGui
    /\ IdleFilter
    /\ IdleScore
    /\ IdleSample
    /\ IdleAlloc
    /\ pool_idx = 0
    /\ \E bl \in HtmlBlockLists, gp \in HtmlPools :
        bh = [pc |-> "walk", blocks |-> bl, game_pool |-> gp, i |-> 0, handed |-> <<>>]

NotHtml == <<sampleVars, allocVars, filterVars, scoreVars, guiVars>>

Walking(type) ==
    /\ bh # <<>>
    /\ bh.pc = "walk"
    /\ bh.i < Len(bh.blocks)
    /\ bh.blocks[bh.i + 1].type = type

\* the games handed to the block being rendered
Hand(games) ==
    [bh EXCEPT !.i = @ + 1,
               !.handed = Append(@, [block |-> bh.i + 1, type |-> bh.blocks[bh.i + 1].type,
                                     games |-> games])]

\* elif btype == "deal_list": int() raises for a str it cannot read
DealListBlock ==
    /\ Walking("deal_list")
    /\ LET c == bh.blocks[bh.i + 1].games_count
           r == next_games(bh.game_pool, pool_idx, CountOf(c))
       IN  IF c.kind = "str"
           THEN /\ bh' = [bh EXCEPT !.pc = "raised"]
                /\ UNCHANGED pool_idx
           ELSE /\ pool_idx' = r.idx
                /\ bh' = Hand(r.games)
    /\ UNCHANGED NotHtml

\* elif btype == "featured": next_game()
FeaturedBlock ==
    /\ Walking("featured")
    /\ LET r == next_games(bh.game_pool, pool_idx, 1)
       IN  /\ pool_idx' = r.idx
           /\ bh' = Hand(r.games)
    /\ UNCHANGED NotHtml

\* elif btype == "game_screenshots": the product of the config, else the game at
\* game_index, else next_game()
GameScreenshotsBlock ==
    /\ Walking("game_screenshots")
    /\ LET b == bh.blocks[bh.i + 1]
           r == next_games(bh.game_pool, pool_idx, 1)
       IN  IF b.product
           THEN /\ bh' = [bh EXCEPT !.i = @ + 1]
                /\ UNCHANGED pool_idx
           ELSE IF ~IsNone(b.game_index) /\ 0 <= Get(b.game_index)
                   /\ Get(b.game_index) < Len(bh.game_pool)
           THEN /\ bh' = Hand(<<bh.game_pool[Get(b.game_index) + 1]>>)
                /\ UNCHANGED pool_idx
           ELSE /\ pool_idx' = r.idx
                /\ bh' = Hand(r.games)
    /\ UNCHANGED NotHtml

\* the block types that take no game
OtherBlock ==
    /\ Walking("text")
    /\ bh' = [bh EXCEPT !.i = @ + 1]
    /\ UNCHANGED pool_idx
    /\ UNCHANGED NotHtml

\* the end of the for loop: the document is returned
HtmlReturn ==
    /\ bh # <<>>
    /\ bh.pc = "walk"
    /\ bh.i = Len(bh.blocks)
    /\ bh' = [bh EXCEPT !.pc = "done"]
    /\ UNCHANGED pool_idx
    /\ UNCHANGED NotHtml

NextHtml ==
    \/ DealListBlock
    \/ FeaturedBlock
    \/ GameScreenshotsBlock
    \/ OtherBlock
    \/ HtmlReturn

SpecHtml == InitHtml /\ [][NextHtml]_vars

----------------------------------------------------------------------------
(* Specification of a URL key: normalize_url makes the key that is stored, *)
(* and the stored key is looked up through normalize_url.                  *)

MaxUrlLen == 4

UrlChars == {"a", "/", "#", " "}

UrlTexts == UNION {[1..n -> UrlChars] : n \in 0..MaxUrlLen}

InitUrl ==
    /\ IdleGui
    /\ IdleHtml
    /\ IdleScore
    /\ IdleSample
    /\ IdleAlloc
    /\ f_rows = <<>>
    /\ f_call \in {Call("normalize_url", "", u, "", "") : u \in UrlTexts}
    /\ f_out = <<>>

\* key = normalize_url(link), the key of the index, of link_to_game and of used
StoreKey ==
    /\ f_call.filter = "normalize_url"
    /\ f_out = <<>>
    /\ f_out' = <<normalize_url(f_call.value)>>
    /\ UNCHANGED <<f_rows, f_call, sampleVars, allocVars, scoreVars, guiVars, htmlVars>>

\* key = normalize_url(raw), of a stored key given as the URL to resolve
LookupKey ==
    /\ f_call.filter = "normalize_url"
    /\ Len(f_out) = 1
    /\ f_out' = Append(f_out, normalize_url(f_out[1]))
    /\ UNCHANGED <<f_rows, f_call, sampleVars, allocVars, scoreVars, guiVars, htmlVars>>

NextUrl ==
    \/ StoreKey
    \/ LookupKey

SpecUrl == InitUrl /\ [][NextUrl]_vars

----------------------------------------------------------------------------
(* Specification of one _game_pick_score call *)

MaxDigits == 8

\* a count a row can hold: none, 0, or 10^k - 1
Counts == {None, Some(0)} \cup {Some(Pow10(k) - 1) : k \in 1..MaxDigits}

\* steam_percent_positive is round(100 * positive / total)
Percents == {None, Some(0), Some(60), Some(100)}

\* discountPercentage of the feed: none, a number, blank, text
DiscountTexts ==
    {None, Some(<<"0">>), Some(<<"5", "0">>), Some(<<"1", "0", "0">>),
     Some(<<"1", "5", "0">>), Some(<<" ">>), Some(<<"a", "b", "c">>)}

\* a row with the fields _game_pick_score reads
ScoreRow(pct, rev, dpct, own, ccu) ==
    [steam_percent_positive |-> pct, steam_total_reviews |-> rev,
     variants_by_currency |-> [USD |-> Some(Variant(None, dpct, 1000, None)),
                               EUR |-> None],
     steamspy_owners_estimate |-> own, steamspy_ccu |-> ccu]

ScoreRows ==
    {ScoreRow(pct, rev, dpct, own, ccu) :
        pct \in Percents, rev \in Counts, dpct \in DiscountTexts,
        own \in Counts, ccu \in Counts}

InitScore ==
    /\ IdleGui
    /\ IdleHtml
    /\ sc_row \in ScoreRows
    /\ sc_out = None
    /\ IdleSample
    /\ IdleAlloc
    /\ IdleFilter

ScoreCall ==
    /\ sc_row # <<>>
    /\ sc_out = None
    /\ sc_out' = Some(_game_pick_score(sc_row))
    /\ UNCHANGED <<sc_row, sampleVars, allocVars, filterVars, guiVars, htmlVars>>

NextScore == ScoreCall

SpecScore == InitScore /\ [][NextScore]_vars

----------------------------------------------------------------------------
(* Claims *)

\* the places of a result that hold a row: <<block, position in the block's list>>
Slots(f) ==
    UNION {{<<i, j>> : j \in 1..Len(Get(f.result[i]))} :
              i \in {i \in 1..Len(f.result) : ~IsNone(f.result[i])}}

RowAt(f, s) == Get(f.result[s[1]])[s[2]]
KeyAt(f, s) == _game_used_key(Game(RowAt(f, s)))

\* the block carries a manual override of any of the four kinds
HasOverride(b) ==
    \/ OrEmpty(b.override_urls) # <<>>
    \/ OrEmpty(b.override_steam_ids) # <<>>
    \/ Strip(OrEmpty(b.override_url)) # <<>>
    \/ ~IsNone(b.override_steam_id)

NoOverrides == \A k \in 1..Len(blocks) : ~HasOverride(blocks[k])

\* a type that, trimmed and lower-cased, is deal_list or featured
AllocatedType(type) == Lower(Strip(OrEmpty(type))) \in {DealList, Featured}
DealListType(type) == Lower(Strip(OrEmpty(type))) = DealList

\* the keys of the rows assigned to the blocks before block i
KeysBefore(f, i) ==
    {Get(KeyAt(f, s)) : s \in {s \in Slots(f) : s[1] < i /\ ~IsNone(KeyAt(f, s))}}

\* C1: in a run over blocks none of which carries a manual override, the dedup keys
\* of the rows assigned, within one block and across blocks, are pairwise distinct
\* (whatever the requested counts are; a row without a key has no dedup key).
C1_NoGameTwice ==
    NoOverrides =>
        \A t \in threads : \A s1 \in Slots(run[t]) : \A s2 \in Slots(run[t]) :
            (s1 # s2 /\ ~IsNone(KeyAt(run[t], s1)) /\ ~IsNone(KeyAt(run[t], s2)))
                => KeyAt(run[t], s1) # KeyAt(run[t], s2)

\* the count a block asks for: games_count (4 when absent or 0) or 1
RECURSIVE RequestedSum(_)
RequestedSum(bs) ==
    IF bs = <<>> THEN 0
    ELSE RequestedSum(Tail(bs)) +
         (IF ~AllocatedType(Head(bs).type) THEN 0
          ELSE IF ~DealListType(Head(bs).type) THEN 1
          ELSE IF Head(bs).games_count.kind = "int" /\ Head(bs).games_count.n # 0
          THEN Head(bs).games_count.n ELSE 4)

C1_Witness ==
    \E t \in threads :
        /\ run[t].pc = "done"
        /\ NoOverrides
        /\ Len(blocks) = 2
        /\ RequestedSum(blocks) <= Len(pool)
        /\ \A i \in 1..2 : ~IsNone(run[t].result[i]) /\ Get(run[t].result[i]) # <<>>
        /\ \A s \in Slots(run[t]) : ~IsNone(KeyAt(run[t], s))

\* C2: the result has one entry per block; entry i is null exactly when block i's
\* type, trimmed and lower-cased, is neither deal_list nor featured.
C2_ResultShape ==
    \A t \in threads :
        run[t].pc = "done" =>
            /\ Len(run[t].result) = Len(blocks)
            /\ \A i \in 1..Len(blocks) :
                   IsNone(run[t].result[i]) <=> ~AllocatedType(blocks[i].type)

C2_Witness ==
    \E t \in threads :
        /\ run[t].pc = "done"
        /\ Len(blocks) = 2
        /\ IsNone(run[t].result[1])
        /\ ~IsNone(run[t].result[2])
        /\ blocks[2].type # Some(DealList)
        /\ blocks[2].type # Some(Featured)

\* C3: a call with 0 < n < len(games) returns exactly n items, each from a
\* position of games of its own, whatever the draws.
C3_SampleDistinct ==
    (ws.pc = "return" /\ 0 < ws_n /\ ws_n < Len(ws_games)) =>
        /\ Len(ws.out) = ws_n
        /\ \A k \in 1..Len(ws.out) : ws.out[k] \in 1..Len(ws_games)
        /\ \A j \in 1..Len(ws.out) : \A k \in 1..Len(ws.out) :
               j # k => ws.out[j] # ws.out[k]

C3_Witness ==
    /\ ws.pc = "return"
    /\ ws_n = 2
    /\ Len(ws_games) = 3
    /\ ws.k = 2
    /\ Len(ws.out) = 2

\* C4: n <= 0 or an empty list gives []; n >= len(games) gives every position of
\* games once; in both cases the loop is never entered (no draw is made).
C4_SampleEarlyReturn ==
    /\ (ws.pc # "call" /\ (ws_n <= 0 \/ ws_games = <<>>)) =>
           (ws.pc = "return" /\ ws.out = <<>> /\ ws.k = 0)
    /\ (ws.pc # "call" /\ ws_n > 0 /\ ws_games # <<>> /\ ws_n >= Len(ws_games)) =>
           /\ ws.pc = "return"
           /\ ws.k = 0
           /\ Len(ws.out) = Len(ws_games)
           /\ \A p \in 1..Len(ws_games) : \E k \in 1..Len(ws.out) : ws.out[k] = p

C4_Witness ==
    /\ ws.pc = "return"
    /\ ws_n = Len(ws_games)
    /\ Len(ws.out) = 2

\* the rows of the pool that pass block b's own filters and whose key is not in used
Eligible(b, used) ==
    {k \in 1..Len(pool) :
        /\ pool[k] \in Range(BlockFiltered(b, pool, currency))
        /\ \/ IsNone(_game_used_key(Game(pool[k])))
           \/ Get(_game_used_key(Game(pool[k]))) \notin used}

\* a step of thread t that assigns block i by sampling
SampledStep(t) ==
    /\ run[t].pc = "loop"
    /\ run[t].i <= Len(blocks)
    /\ AllocatedType(blocks[run[t].i].type)
    /\ ~HasOverride(blocks[run[t].i])
    /\ run'[t].pc = "loop"
    /\ run'[t].i = run[t].i + 1

AssignedCount(t) == Len(Get(run'[t].result[run[t].i]))

\* C5 as claimed: count is the block's games_count (where that is an int >= 0)
C5_CountIsGamesCount ==
    [][\A t \in threads :
         (/\ SampledStep(t)
          /\ DealListType(blocks[run[t].i].type)
          /\ blocks[run[t].i].games_count.kind = "int"
          /\ blocks[run[t].i].games_count.n >= 0)
         => AssignedCount(t) =
                Min2(blocks[run[t].i].games_count.n,
                     Cardinality(Eligible(blocks[run[t].i], run[t].used)))]_vars

\* the count of a deal_list block: max(0, int(games_count or 4))
EffectiveCount(gc) ==
    IF gc.kind = "int" /\ gc.n # 0 THEN Max2(0, gc.n)
    ELSE IF gc.kind = "str" /\ gc.s # <<>> THEN Max2(0, Get(PyInt(gc.s)))
    ELSE 4

\* C5, amended: a sampled deal_list block gets min(count, E) rows with
\* count = max(0, int(games_count or 4)); a sampled featured block gets min(1, E).
C5_AssignedCount ==
    [][\A t \in threads :
         SampledStep(t) =>
            AssignedCount(t) =
                Min2(IF DealListType(blocks[run[t].i].type)
                     THEN EffectiveCount(blocks[run[t].i].games_count) ELSE 1,
                     Cardinality(Eligible(blocks[run[t].i], run[t].used)))]_vars

\* a shortfall has happened: a block that asked for 4 got fewer, and the run went on
C5_Witness ==
    \E t \in threads :
        /\ run[t].pc = "done"
        /\ Len(blocks) = 2
        /\ blocks[1].games_count = GcInt(0)
        /\ DealListType(blocks[1].type)
        /\ ~IsNone(run[t].result[1])
        /\ Len(Get(run[t].result[1])) = 1
        /\ ~IsNone(run[t].result[2])

\* C6: no call of the allocation raises.
C6_NeverRaises == \A t \in threads : run[t].pc # "raised"

BothDone == \A t \in threads : run[t].pc = "done"

SameNulls ==
    \A i \in 1..Len(blocks) :
        IsNone(run["worker"].result[i]) <=> IsNone(run["main"].result[i])

\* C7 as claimed: two runs on the same arguments give every block the same
\* number of rows.
C7_SameShape ==
    BothDone =>
        /\ SameNulls
        /\ \A i \in 1..Len(blocks) :
               ~IsNone(run["worker"].result[i]) =>
                   Len(Get(run["worker"].result[i])) = Len(Get(run["main"].result[i]))

\* C7, amended: the same entries are null in every outcome, and a block gets the
\* same number of rows in two outcomes that assigned the same keys to the blocks
\* before it (so the first deal_list or featured block always gets the same number).
C7_ShapeGivenUsed ==
    BothDone =>
        /\ SameNulls
        /\ \A i \in 1..Len(blocks) :
               (/\ ~IsNone(run["worker"].result[i])
                /\ KeysBefore(run["worker"], i) = KeysBefore(run["main"], i))
               => Len(Get(run["worker"].result[i])) = Len(Get(run["main"].result[i]))

\* two outcomes that chose different rows for the first block and the same number
C7_Witness ==
    /\ BothDone
    /\ Len(blocks) = 2
    /\ ~IsNone(run["worker"].result[1])
    /\ ~IsNone(run["worker"].result[2])
    /\ Get(run["worker"].result[1]) # Get(run["main"].result[1])
    /\ Len(Get(run["worker"].result[1])) = 1
    /\ Len(Get(run["main"].result[1])) = 1

\* every result a call returns when it runs alone, from block i on
RECURSIVE SoloFrom(_, _, _)
SoloFrom(i, used, result) ==
    IF i > Len(blocks) THEN {result}
    ELSE IF ~AllocatedType(blocks[i].type) THEN SoloFrom(i + 1, used, result)
    ELSE IF BlockBranch(blocks[i], index) = "sample" /\ IsNone(SampleCount(blocks[i]))
    THEN {}
    ELSE UNION {SoloFrom(i + 1, used \cup KeysOf(rows), [result EXCEPT ![i] = Some(rows)]) :
                   rows \in BlockRows(blocks[i], pool, index, currency, used)}

SoloResults == SoloFrom(1, {}, [k \in 1..Len(blocks) |-> None])

\* C8: two interleaved calls each see only their own used set: the set holds the
\* keys of the call's own rows and no other, and the result a call returns is one
\* it returns running alone.
C8_OwnUsedSet ==
    \A t \in threads :
        /\ run[t].pc \in {"loop", "done"} =>
               run[t].used = KeysBefore(run[t], Len(blocks) + 1)
        /\ run[t].pc = "done" => run[t].result \in SoloResults

\* both calls are under way and have assigned the same game
C8_Witness ==
    /\ run["worker"].pc = "loop"
    /\ run["main"].pc = "loop"
    /\ run["worker"].used # {}
    /\ run["worker"].used = run["main"].used

----------------------------------------------------------------------------
(* The filters' no-op laws and the score filter's Operator mode *)

\* the criteria of a call are absent, empty, "All", of no known type, or text
\* that is not an expression of the filter
NoOpCriteria(c) ==
    CASE c.filter = "score" ->
            \/ c.type \in {"", "All", "Percent"}
            \/ c.type = "Exact %" /\ c.value \in EmptyTexts \cup MalformedIntTexts
            \/ c.type = "Operator" /\ c.value \in EmptyTexts \cup MalformedOpIntTexts
            \/ c.type = "Label" /\ c.label \in {"", "Mixed"}
      [] c.filter = "reviews" -> c.value \in EmptyTexts \cup MalformedIntTexts
      [] c.filter = "discount" -> c.value \in EmptyTexts \cup MalformedOpIntTexts
      [] c.filter = "price" -> c.value \in EmptyTexts \cup MalformedOpDecimalTexts
      [] c.filter \in {"sale_end", "release_date"} ->
            \/ c.type \in {"", "All", "Today"}
            \/ c.type = "By date" /\ c.value \in EmptyTexts \cup MalformedDateTexts
      [] c.filter \in {"title", "publisher", "developer", "tags"} ->
            c.value \in EmptyTexts
      [] OTHER -> FALSE

\* C9: a filter called with criteria that are absent, empty, "All" or that fail
\* to parse returns its input rows: the same rows in the same order.
C9_NoOpLaw == NoOpCriteria(f_call) => f_out = f_rows

\* a "By date" sale-end call with text that is no date expression, on rows of
\* which one has no sale end, returned those rows
C9_Witness ==
    /\ f_call.filter = "sale_end"
    /\ f_call.type = "By date"
    /\ f_call.value \in MalformedDateTexts
    /\ Len(f_rows) >= 3
    /\ \E k \in 1..Len(f_rows) : IsNone(_sale_end_ms(Game(f_rows[k])))
    /\ f_out = f_rows

\* the operator expressions of the score control: text, operator, operand
ScoreExpr(text, op, num) == [text |-> text, op |-> op, num |-> num]
ScoreExprs == {
    ScoreExpr(<<">", "7", "5">>, ">", 75),
    ScoreExpr(<<">", "=", "7", "5">>, ">=", 75),
    ScoreExpr(<<"<", "7", "5">>, "<", 75),
    ScoreExpr(<<"<", "=", "7", "5">>, "<=", 75),
    ScoreExpr(<<"=", "=", "7", "5">>, "==", 75),
    ScoreExpr(<<"!", "=", "7", "5">>, "!=", 75),
    ScoreExpr(<<"=", "7", "5">>, "=", 75),
    ScoreExpr(<<" ", ">", "=", " ", "5", "0", " ">>, ">=", 50),
    ScoreExpr(<<"<", "=", " ", "1", "0">>, "<=", 10),
    ScoreExpr(<<"=", "=", "5", "0">>, "==", 50) }

\* the comparison an operator stands for; = is ==
Compares(op, pct, num) ==
    CASE op = ">" -> pct > num
      [] op = ">=" -> pct >= num
      [] op = "<" -> pct < num
      [] op = "<=" -> pct <= num
      [] op \in {"==", "="} -> pct = num
      [] op = "!=" -> pct # num

Satisfying(rows, e) ==
    {r \in Range(rows) :
        /\ ~IsNone(Game(r).steam_percent_positive)
        /\ Compares(e.op, Get(Game(r).steam_percent_positive), e.num)}

\* C10: the score filter in Operator mode returns, in input order, exactly the
\* rows whose steam_percent_positive is not null and satisfies the comparison of
\* the expression's operator with its operand; a row with a null percent is
\* never returned.
C10_OperatorKeepsSatisfying ==
    \A e \in ScoreExprs :
        (f_call.filter = "score" /\ f_call.type = "Operator" /\ f_call.value = e.text)
            => f_out = SelectRows(f_rows, Satisfying(f_rows, e))

----------------------------------------------------------------------------
(* The sale-end filter: ranges and sorts *)

\* the range expressions of the sale-end control: text, first day, last day
RangeExpr(text, d1, d2) == [text |-> text, d1 |-> d1, d2 |-> d2]
RangeExprs == {
    RangeExpr(<<"2", "0", "2", "6", "-", "0", "2", "-", "0", "1", ".", ".",
                "2", "0", "2", "6", "-", "0", "2", "-", "2", "8">>,
              DaysFromCivil(2026, 2, 1), DaysFromCivil(2026, 2, 28)),
    RangeExpr(<<"2", "0", "2", "6", "-", "0", "2", "-", "1", "5", " ", "t", "o", " ",
                "2", "0", "2", "6", "-", "0", "3", "-", "0", "1">>,
              DaysFromCivil(2026, 2, 15), DaysFromCivil(2026, 3, 1)),
    RangeExpr(<<"2", "0", "2", "6", "-", "0", "2", "-", "1", "5", ".", ".",
                "2", "0", "2", "6", "-", "0", "2", "-", "1", "5">>,
              DaysFromCivil(2026, 2, 15), DaysFromCivil(2026, 2, 15)),
    RangeExpr(<<"2", "0", "2", "6", "-", "0", "2", "-", "0", "1", " ", "T", "O", " ",
                "2", "0", "2", "6", "-", "0", "2", "-", "2", "8">>,
              DaysFromCivil(2026, 2, 1), DaysFromCivil(2026, 2, 28)),
    RangeExpr(<<"2", "0", "1", "2", "-", "0", "1", "-", "0", "1", ".", ".",
                "2", "0", "2", "6", "-", "0", "2", "-", "1", "5">>,
              DaysFromCivil(2012, 1, 1), DaysFromCivil(2026, 2, 15)) }

\* the rows whose sale end lies from the first ms of day d1 to the last ms of day d2
EndsWithin(rows, d1, d2) ==
    {r \in Range(rows) :
        /\ ~IsNone(_sale_end_ms(Game(r)))
        /\ d1 <= Get(_sale_end_ms(Game(r))).day
        /\ Get(_sale_end_ms(Game(r))).day <= d2}

PosIn(rows, r) == CHOOSE k \in 1..Len(rows) : rows[k] = r

\* row a may stand before row b: a ends and b does not; or both end and a ends
\* earlier (later when descending); or their keys are equal and a is before b
\* in the input
MayPrecede(a, b, rows, descending) ==
    LET ta == _sale_end_ms(Game(a))
        tb == _sale_end_ms(Game(b))
    IN  \/ ~IsNone(ta) /\ IsNone(tb)
        \/ /\ ~IsNone(ta) /\ ~IsNone(tb)
           /\ IF descending THEN TimeLt(Get(tb), Get(ta)) ELSE TimeLt(Get(ta), Get(tb))
        \/ /\ ta = tb
           /\ PosIn(rows, a) < PosIn(rows, b)

----------------------------------------------------------------------------
(* The discount filter *)

\* the best discount of each row of the table: the largest discountPercentage
\* of its variants
BestDiscount ==
    <<Some(10), Some(50), Some(75), Some(90), None, Some(30), Some(40)>>

DiscountSatisfying(rows, e) ==
    {r \in Range(rows) :
        /\ ~IsNone(BestDiscount[r])
        /\ Compares(e.op, Get(BestDiscount[r]), e.num)}

\* C13: the discount filter with an operator expression returns, in input
\* order, exactly the rows whose best discount satisfies the comparison; a row
\* with no discount data is never returned.  The discount control takes the
\* expressions of the score control.
C13_DiscountKeepsSatisfying ==
    \A e \in ScoreExprs :
        (f_call.filter = "discount" /\ f_call.value = e.text)
            => f_out = SelectRows(f_rows, DiscountSatisfying(f_rows, e))

----------------------------------------------------------------------------
(* The scoring function *)

\* 1.0 in the units of _game_pick_score
ScoreOne == 3000000

NoDiscount(g) == IsNone(_discount_pct(g))

AllAbsent(g) ==
    /\ IsNone(g.steam_percent_positive) /\ IsNone(g.steam_total_reviews)
    /\ NoDiscount(g)
    /\ IsNone(g.steamspy_owners_estimate) /\ IsNone(g.steamspy_ccu)

\* every component of the row is at or above its cap
AllCapped(g) ==
    /\ g.steam_percent_positive = Some(100)
    /\ ~IsNone(g.steam_total_reviews) /\ Get(g.steam_total_reviews) >= 999999
    /\ ~NoDiscount(g) /\ Get(_discount_pct(g)) >= 100
    /\ ~IsNone(g.steamspy_owners_estimate) /\ Get(g.steamspy_owners_estimate) >= 99999999
    /\ ~IsNone(g.steamspy_ccu) /\ Get(g.steamspy_ccu) >= 99999

\* the row with 0 in place of each absent field
ZeroForAbsent(g) ==
    ScoreRow(IF IsNone(g.steam_percent_positive) THEN Some(0) ELSE g.steam_percent_positive,
             IF IsNone(g.steam_total_reviews) THEN Some(0) ELSE g.steam_total_reviews,
             IF NoDiscount(g) THEN Some(<<"0">>)
             ELSE Get(g.variants_by_currency["USD"]).discountPercentage,
             IF IsNone(g.steamspy_owners_estimate) THEN Some(0)
             ELSE g.steamspy_owners_estimate,
             IF IsNone(g.steamspy_ccu) THEN Some(0) ELSE g.steamspy_ccu)

\* C14: the score of every row is in [0, 1], whatever optional fields are
\* absent; an absent field contributes what a 0 contributes; the components are
\* capped and the weights sum to 1, so a row at every cap scores exactly 1; a
\* row with every optional field absent scores exactly 0.
C14_ScoreInUnitInterval ==
    ~IsNone(sc_out) =>
        /\ 0 <= Get(sc_out) /\ Get(sc_out) <= ScoreOne
        /\ Get(sc_out) = _game_pick_score(ZeroForAbsent(sc_row))
        /\ AllCapped(sc_row) => Get(sc_out) = ScoreOne
        /\ AllAbsent(sc_row) => Get(sc_out) = 0

\* a row with 99,999,999 reviews and nothing else scored 0.2
C14_Witness ==
    /\ sc_out = Some(600000)
    /\ sc_row.steam_total_reviews = Some(99999999)
    /\ IsNone(sc_row.steam_percent_positive)
    /\ NoDiscount(sc_row)
    /\ IsNone(sc_row.steamspy_owners_estimate) /\ IsNone(sc_row.steamspy_ccu)

----------------------------------------------------------------------------
(* The dedup key and the used set *)

\* the dedup key of each row of the table: the normalized link, else the
\* steam_app_id, else none
KeyTable ==
    <<Some(UrlKey(<<"a">>)), Some(UrlKey(<<"b">>)), Some(UrlKey(<<"c">>)),
      Some(SteamKey(7)), None, Some(UrlKey(<<"f">>)), None>>

\* the keys of the rows of a list that have one
TableKeys(rows) ==
    {Get(KeyTable[rows[k]]) : k \in {j \in 1..Len(rows) : ~IsNone(KeyTable[rows[j]])}}

\* the rows a step of thread t assigns to its block
Assigned(t) == Get(run'[t].result[run[t].i])

StepCount(t) ==
    IF DealListType(blocks[run[t].i].type)
    THEN EffectiveCount(blocks[run[t].i].games_count) ELSE 1

\* C15: a row's dedup key is its normalized link when the link is not empty,
\* else a key of its steam_app_id, else none; a step that assigns a block by
\* sampling records the keys of the rows that have one and nothing else, and a
\* row with no key stays a candidate: a block that takes all its candidates
\* takes every row without a key that passes its filters, assigned before or not.
C15_DedupKey ==
    [][\A t \in threads :
         SampledStep(t) =>
            /\ \A k \in 1..Len(pool) : _game_used_key(Game(pool[k])) = KeyTable[pool[k]]
            /\ run'[t].used = run[t].used \cup TableKeys(Assigned(t))
            /\ StepCount(t) >= Len(pool) =>
                 \A r \in Range(BlockFiltered(blocks[run[t].i], pool, currency)) :
                    IsNone(KeyTable[r]) => r \in Range(Assigned(t))]_vars

\* row 5, which has no key, was assigned by sampling to the first block and
\* again to the second
C15_Witness ==
    \E t \in threads :
        /\ run[t].pc = "done"
        /\ Len(blocks) = 2
        /\ NoOverrides
        /\ ~IsNone(run[t].result[1]) /\ ~IsNone(run[t].result[2])
        /\ 5 \in Range(Get(run[t].result[1]))
        /\ 5 \in Range(Get(run[t].result[2]))
        /\ run[t].used = TableKeys(Get(run[t].result[1]) \o Get(run[t].result[2]))

\* the keys of all the rows assigned so far in frame f
KeysAssigned(f) == {Get(KeyTable[RowAt(f, s)]) : s \in {s \in Slots(f) : ~IsNone(KeyTable[RowAt(f, s)])}}

\* C16: during a run the used set only grows, and between two blocks it is
\* exactly the set of dedup keys of the rows assigned so far, by override or by
\* sampling: the keys of a block's rows are in it before the next block is
\* processed.
C16_UsedIsKeysAssigned ==
    /\ [](\A t \in threads : run[t].used = KeysAssigned(run[t]))
    /\ [][\A t \in threads : run[t].used \subseteq run'[t].used]_vars

\* an overridden block and then a sampled block were processed, and the used
\* set holds the keys of the rows of both
C16_Witness ==
    \E t \in threads :
        /\ run[t].pc = "loop"
        /\ run[t].i = 3
        /\ HasOverride(blocks[1]) /\ ~HasOverride(blocks[2])
        /\ ~IsNone(run[t].result[1]) /\ ~IsNone(run[t].result[2])
        /\ Len(Get(run[t].result[1])) = 2
        /\ Len(Get(run[t].result[2])) >= 1
        /\ Cardinality(run[t].used) >= 3

----------------------------------------------------------------------------
(* Sampled blocks and overridden blocks *)

\* a text filter of a block lets a field through: no query, or the query is in it
TextPasses(value, query) ==
    \/ Lower(Strip(OrEmpty(query))) = <<>>
    \/ Contains(Lower(Strip(OrEmpty(value))), Lower(Strip(OrEmpty(query))))

\* row r passes each of block b's own filters, taken one at a time
PassesOwn(b, r) ==
    /\ TextPasses(Game(r).steam_publisher, b.publisher)
    /\ TextPasses(Game(r).steam_developer, b.developer)
    /\ \/ Lower(Strip(OrEmpty(b.tags))) = <<>>
       \/ \E k \in 1..Len(Game(r).steam_tags) :
            TextPasses(Some(Game(r).steam_tags[k]), b.tags)
    /\ apply_price_filter(<<r>>, OrEmpty(b.price_value), currency) = <<r>>
    /\ apply_discount_filter(<<r>>, OrEmpty(b.discount_value)) = <<r>>

\* C17: every row a block is assigned by sampling is a row of the pool that
\* passes the block's own publisher, developer, tags, price and discount
\* filters, and its dedup key was not in the used set when the block was
\* processed.
C17_SampledRowsPass ==
    [][\A t \in threads :
         SampledStep(t) =>
            \A r \in Range(Assigned(t)) :
                /\ r \in Range(pool)
                /\ PassesOwn(blocks[run[t].i], r)
                /\ IsNone(KeyTable[r]) \/ Get(KeyTable[r]) \notin run[t].used]_vars

\* after a first block took a row, a second block with filters of its own was
\* assigned a row by sampling from a pool that holds rows its filters reject
C17_Witness ==
    \E t \in threads :
        /\ run[t].pc = "done"
        /\ Len(blocks) = 2
        /\ NoOverrides
        /\ ~IsNone(run[t].result[1]) /\ Get(run[t].result[1]) # <<>>
        /\ ~IsNone(run[t].result[2]) /\ Get(run[t].result[2]) # <<>>
        /\ \E k \in 1..Len(pool) : ~PassesOwn(blocks[2], pool[k])

\* the manual override a block carries, by its type: the URL list or the
\* Steam-ID list of a deal_list block, the URL or the Steam-ID of a featured one
OverrideUrls(b) ==
    IF DealListType(b.type) THEN Range(OrEmpty(b.override_urls))
    ELSE IF Strip(OrEmpty(b.override_url)) # <<>> THEN {Strip(OrEmpty(b.override_url))}
    ELSE {}

OverrideIds(b) ==
    IF DealListType(b.type) THEN Range(OrEmpty(b.override_steam_ids))
    ELSE IF IsNone(b.override_steam_id) THEN {} ELSE {Get(b.override_steam_id)}

CarriesOverride(b) == OverrideUrls(b) # {} \/ OverrideIds(b) # {}

\* the pool rows an identifier resolves to
RowsOfUrl(u) ==
    {r \in Range(pool) : normalize_url(u) # <<>> /\ KeyTable[r] = Some(UrlKey(normalize_url(u)))}

RowsOfId(a) == {r \in Range(pool) : Game(r).steam_app_id = Some(a)}

\* a step of thread t that assigns a block carrying a manual override
OverrideStep(t) ==
    /\ run[t].pc = "loop"
    /\ run[t].i <= Len(blocks)
    /\ AllocatedType(blocks[run[t].i].type)
    /\ CarriesOverride(blocks[run[t].i])
    /\ run'[t].pc = "loop"
    /\ run'[t].i = run[t].i + 1

\* C18: the result of a deal_list or featured block that carries a manual
\* override consists of exactly the pool rows its identifiers resolve to: every
\* row of the result is a pool row one of the identifiers resolves to (so none
\* is a sampled row), and every identifier that resolves to a pool row has such
\* a row in the result; an identifier that is not found adds nothing.
C18_OverrideRowsOnly ==
    [][\A t \in threads :
         OverrideStep(t) =>
            LET b == blocks[run[t].i]
            IN  /\ \A r \in Range(Assigned(t)) :
                      \/ \E u \in OverrideUrls(b) : r \in RowsOfUrl(u)
                      \/ \E a \in OverrideIds(b) : r \in RowsOfId(a)
                /\ \A u \in OverrideUrls(b) :
                      RowsOfUrl(u) # {} => RowsOfUrl(u) \cap Range(Assigned(t)) # {}
                /\ \A a \in OverrideIds(b) :
                      RowsOfId(a) # {} => RowsOfId(a) \cap Range(Assigned(t)) # {}]_vars

\* the used set holds the keys of the rows of the overridden blocks before block i
OverrideKeysUsed(f) ==
    \A k \in 1..(f.i - 1) :
        (CarriesOverride(blocks[k]) /\ ~IsNone(f.result[k]))
            => TableKeys(Get(f.result[k])) \subseteq f.used

\* C19: a block with a manual override is assigned its override rows without
\* consulting the used set: a pool row one of its identifiers resolves to is
\* assigned to it also when the row's key is in the used set; the keys of its
\* rows are then added to the used set, and a later block that picks by
\* sampling is assigned no row whose key is in the used set.
C19_OverrideIgnoresUsed ==
    [][\A t \in threads :
         /\ OverrideStep(t) =>
              LET b == blocks[run[t].i]
              IN  /\ \A u \in OverrideUrls(b) : \A r \in RowsOfUrl(u) :
                        Get(KeyTable[r]) \in run[t].used => r \in Range(Assigned(t))
                  /\ \A a \in OverrideIds(b) : \A r \in RowsOfId(a) :
                        (~IsNone(KeyTable[r]) /\ Get(KeyTable[r]) \in run[t].used)
                            => r \in Range(Assigned(t))
                  /\ run'[t].used = run[t].used \cup TableKeys(Assigned(t))
         /\ SampledStep(t) =>
              /\ OverrideKeysUsed(run[t])
              /\ TableKeys(Assigned(t)) \cap run[t].used = {}]_vars

----------------------------------------------------------------------------
(* The draw loop of the sampler *)

\* the remaining items without the one at place idx
Without(work, idx) == [j \in 1..(Len(work) - 1) |-> IF j < idx THEN work[j] ELSE work[j + 1]]

\* C20: the sampler always returns.  Every iteration of its draw loop removes
\* exactly one item from the remaining items and emits that same item; a draw
\* that the walk carries past every item removes and emits the last remaining
\* item.  So after k iterations k items are emitted and emitted plus remaining
\* items are len(items), and a call with 0 <= n <= len(items) returns exactly
\* n items.
C20_SamplerTerminates ==
    /\ <>(ws.pc = "return")
    /\ [][SampleIter =>
            /\ \E idx \in 1..Len(ws.work) :
                  /\ ws'.work = Without(ws.work, idx)
                  /\ ws'.out = Append(ws.out, ws.work[idx].pos)
            /\ ws'.k = ws.k + 1]_vars
    /\ [](ws.pc = "loop" =>
            /\ Len(ws.out) = ws.k
            /\ Len(ws.out) + Len(ws.work) = Len(ws_games)
            /\ \A r \in Draws(ws.work) :
                  (ws.work # <<>> /\ Walk(ws.work, r, 1) = 0) =>
                      /\ WS_Iter(ws, r).work = Without(ws.work, Len(ws.work))
                      /\ WS_Iter(ws, r).out = Append(ws.out, ws.work[Len(ws.work)].pos))
    /\ []((ws.pc = "return" /\ 0 <= ws_n /\ ws_n <= Len(ws_games)) => Len(ws.out) = ws_n)

\* a call for two of three items has returned after two iterations, the last
\* item emitted first and one item remaining
C20_Witness ==
    /\ ws.pc = "return"
    /\ Len(ws_games) = 3 /\ ws_n = 2
    /\ ws.k = 2 /\ Len(ws.out) = 2 /\ Len(ws.work) = 1
    /\ ws.out[1] = 3

----------------------------------------------------------------------------
(* The operator = and the day comparisons *)

\* the text is an operator expression whose operator is a single =
SingleEquals(v) ==
    /\ Len(Strip(v)) >= 2
    /\ Strip(v)[1] = "="
    /\ Strip(v)[2] # "="

\* the same expression with == for =
Doubled(v) == <<"=">> \o Strip(v)

\* C21: in every operator expression = means ==: the score, discount and price
\* filters and the By date forms of the sale-end and release-date filters,
\* called with =X, return what they return for ==X.
C21_EqualsIsDoubleEquals ==
    SingleEquals(f_call.value) =>
        /\ (f_call.filter = "score" /\ f_call.type = "Operator") =>
              f_out = apply_score_filter(f_rows, "Operator", Doubled(f_call.value), f_call.label)
        /\ f_call.filter = "discount" =>
              f_out = apply_discount_filter(f_rows, Doubled(f_call.value))
        /\ f_call.filter = "price" =>
              f_out = apply_price_filter(f_rows, Doubled(f_call.value), f_call.currency)
        /\ (f_call.filter = "sale_end" /\ f_call.type = "By date") =>
              f_out = apply_sale_end_filter(f_rows, "By date", Doubled(f_call.value))
        /\ (f_call.filter = "release_date" /\ f_call.type = "By date") =>
              f_out = _apply_release_date_filter(f_rows, "By date", Doubled(f_call.value))

\* the operator expressions of the date controls: text, operator, day
DateExpr(text, op, day) == [text |-> text, op |-> op, day |-> day]
DateExprs == {
    DateExpr(<<"<", "2", "0", "2", "6", "-", "0", "3", "-", "0", "1">>,
             "<", DaysFromCivil(2026, 3, 1)),
    DateExpr(<<"<", "=", "2", "0", "2", "6", "-", "0", "2", "-", "2", "8">>,
             "<=", DaysFromCivil(2026, 2, 28)),
    DateExpr(<<">", "2", "0", "2", "6", "-", "0", "2", "-", "1", "5">>,
             ">", DaysFromCivil(2026, 2, 15)),
    DateExpr(<<">", "=", "2", "0", "2", "6", "-", "0", "2", "-", "1", "5">>,
             ">=", DaysFromCivil(2026, 2, 15)),
    DateExpr(<<"=", "=", "2", "0", "2", "6", "-", "0", "2", "-", "1", "5">>,
             "==", DaysFromCivil(2026, 2, 15)),
    DateExpr(<<"!", "=", "2", "0", "2", "6", "-", "0", "2", "-", "1", "5">>,
             "!=", DaysFromCivil(2026, 2, 15)),
    DateExpr(<<">", "=", " ", "2", "0", "2", "6", "-", "0", "3", "-", "0", "1", " ">>,
             ">=", DaysFromCivil(2026, 3, 1)),
    DateExpr(<<"<", "2", "0", "1", "2", "-", "0", "8", "-", "2", "1">>,
             "<", DaysFromCivil(2012, 8, 21)),
    DateExpr(<<">", "=", "2", "0", "1", "2", "-", "0", "8", "-", "2", "1">>,
             ">=", DaysFromCivil(2012, 8, 21)) }

\* the comparison of a timestamp with day D that an operator stands for: with S
\* the first ms of D, E = S + 86,400,000 - 1 and N = S + 86,400,000, t < S is a
\* day before D, t <= E a day up to D, t >= N a day after D, t >= S a day from D
DayCompares(op, t, day) ==
    CASE op = "<" -> t.day < day
      [] op = "<=" -> t.day <= day
      [] op = ">" -> t.day > day
      [] op = ">=" -> t.day >= day
      [] op = "==" -> t.day = day
      [] op = "!=" -> t.day # day

DayKeeps(rows, times, e) ==
    {r \in Range(rows) : ~IsNone(times[r]) /\ DayCompares(e.op, Get(times[r]), e.day)}

\* the days the consequences are checked for, as the text of the control; they
\* are checked of the rows of every list, before the call
DayTexts == {
    <<"2", "0", "2", "6", "-", "0", "2", "-", "1", "5">>,
    <<"2", "0", "2", "6", "-", "0", "2", "-", "2", "8">>,
    <<"2", "0", "2", "6", "-", "0", "3", "-", "0", "1">> }

SaleEndBy(op, d) == Range(apply_sale_end_filter(f_rows, "By date", op \o d))
ReleasedBy(op, d) == Range(_apply_release_date_filter(f_rows, "By date", op \o d))

\* C22: the By date filters with an operator expression compare at day
\* granularity: < keeps t < S, <= keeps t <= E, > keeps t >= N, >= keeps t >= S,
\* == keeps S <= t <= E and != the timestamps outside it.  So every row with a
\* timestamp is kept by exactly one of <D, ==D and >D, <= keeps what < or ==
\* keeps, and >= keeps what > or == keeps.
C22_DayGranularity ==
    /\ \A e \in DateExprs :
          /\ (f_call.filter = "sale_end" /\ f_call.type = "By date" /\ f_call.value = e.text)
                => f_out = SelectRows(f_rows, DayKeeps(f_rows, SaleEnds, e))
          /\ (f_call.filter = "release_date" /\ f_call.type = "By date" /\ f_call.value = e.text)
                => f_out = SelectRows(f_rows, DayKeeps(f_rows, ReleaseDates, e))
    /\ \A d \in (IF f_call = NoCall THEN DayTexts ELSE {}) :
          /\ SaleEndBy(<<"<">>, d) \cup SaleEndBy(<<"=", "=">>, d) \cup SaleEndBy(<<">">>, d)
                = {r \in Range(f_rows) : ~IsNone(SaleEnds[r])}
          /\ SaleEndBy(<<"<">>, d) \cap SaleEndBy(<<"=", "=">>, d) = {}
          /\ SaleEndBy(<<"<">>, d) \cap SaleEndBy(<<">">>, d) = {}
          /\ SaleEndBy(<<"=", "=">>, d) \cap SaleEndBy(<<">">>, d) = {}
          /\ SaleEndBy(<<"<", "=">>, d) = SaleEndBy(<<"<">>, d) \cup SaleEndBy(<<"=", "=">>, d)
          /\ SaleEndBy(<<">", "=">>, d) = SaleEndBy(<<">">>, d) \cup SaleEndBy(<<"=", "=">>, d)
          /\ ReleasedBy(<<"<">>, d) \cup ReleasedBy(<<"=", "=">>, d) \cup ReleasedBy(<<">">>, d)
                = {r \in Range(f_rows) : ~IsNone(ReleaseDates[r])}
          /\ ReleasedBy(<<"<">>, d) \cap ReleasedBy(<<"=", "=">>, d) = {}
          /\ ReleasedBy(<<"<">>, d) \cap ReleasedBy(<<">">>, d) = {}
          /\ ReleasedBy(<<"=", "=">>, d) \cap ReleasedBy(<<">">>, d) = {}
          /\ ReleasedBy(<<"<", "=">>, d) = ReleasedBy(<<"<">>, d) \cup ReleasedBy(<<"=", "=">>, d)
          /\ ReleasedBy(<<">", "=">>, d) = ReleasedBy(<<">">>, d) \cup ReleasedBy(<<"=", "=">>, d)

\* >2026-02-15 on rows ending at 12:00 of the 15th (1) and on the 28th (2): row 1
\* is dropped, row 2 kept
C22_Witness ==
    /\ f_call.filter = "sale_end"
    /\ f_call.type = "By date"
    /\ f_call.value = <<">", "2", "0", "2", "6", "-", "0", "2", "-", "1", "5">>
    /\ 1 \in Range(f_rows) /\ 1 \notin Range(f_out)
    /\ 2 \in Range(f_out)

----------------------------------------------------------------------------
(* Rows with no sale end; the date-expression parser; the pipeline *)

\* C23: for every sale-end filter type other than All (Ending Soon, Ending
\* Latest, By date with any expression) no row without a sale-end date is in the
\* output.
C23_NoEndExcluded ==
    (f_call.filter = "sale_end" /\ f_call.type \in {"Ending Soon", "Ending Latest", "By date"})
        => \A k \in 1..Len(f_out) : ~IsNone(_sale_end_ms(Game(f_out[k])))

\* the calendar dates among the dates of the parsed texts, and their day since
\* 1970-01-01
CalendarDays == {
    [y |-> <<"2", "0", "2", "6">>, mo |-> <<"0", "2">>, d |-> <<"0", "1">>, day |-> 20485],
    [y |-> <<"2", "0", "2", "6">>, mo |-> <<"0", "2">>, d |-> <<"2", "8">>, day |-> 20512],
    [y |-> <<"2", "0", "2", "6">>, mo |-> <<"1", "2">>, d |-> <<"0", "1">>, day |-> 20788],
    [y |-> <<"2", "0", "2", "6">>, mo |-> <<"1", "2">>, d |-> <<"2", "8">>, day |-> 20815],
    [y |-> <<"2", "0", "2", "6">>, mo |-> <<"1", "2">>, d |-> <<"2", "9">>, day |-> 20816],
    [y |-> <<"2", "0", "2", "6">>, mo |-> <<"1", "2">>, d |-> <<"3", "0">>, day |-> 20817],
    [y |-> <<"2", "0", "2", "6">>, mo |-> <<"1", "2">>, d |-> <<"3", "1">>, day |-> 20818],
    [y |-> <<"2", "0", "2", "4">>, mo |-> <<"0", "2">>, d |-> <<"0", "1">>, day |-> 19754],
    [y |-> <<"2", "0", "2", "4">>, mo |-> <<"0", "2">>, d |-> <<"2", "8">>, day |-> 19781],
    [y |-> <<"2", "0", "2", "4">>, mo |-> <<"0", "2">>, d |-> <<"2", "9">>, day |-> 19782],
    [y |-> <<"2", "0", "2", "4">>, mo |-> <<"1", "2">>, d |-> <<"0", "1">>, day |-> 20058],
    [y |-> <<"2", "0", "2", "4">>, mo |-> <<"1", "2">>, d |-> <<"2", "8">>, day |-> 20085],
    [y |-> <<"2", "0", "2", "4">>, mo |-> <<"1", "2">>, d |-> <<"2", "9">>, day |-> 20086],
    [y |-> <<"2", "0", "2", "4">>, mo |-> <<"1", "2">>, d |-> <<"3", "0">>, day |-> 20087],
    [y |-> <<"2", "0", "2", "4">>, mo |-> <<"1", "2">>, d |-> <<"3", "1">>, day |-> 20088] }

IsCalendarDate(txt) == \E c \in CalendarDays : txt = DateText(c.y, c.mo, c.d)
DayOf(txt) == (CHOOSE c \in CalendarDays : txt = DateText(c.y, c.mo, c.d)).day

PassesEach(r, p) ==
    /\ apply_score_filter(<<r>>, p.score_type, p.score_value, p.label_value) = <<r>>
    /\ apply_reviews_filter(<<r>>, p.min_reviews) = <<r>>
    /\ apply_discount_filter(<<r>>, p.discount_value) = <<r>>
    /\ apply_price_filter(<<r>>, p.price_value, p.currency) = <<r>>
    /\ apply_sale_end_filter(<<r>>, p.sale_end_type, p.sale_end_value) = <<r>>

\* C25: apply_deal_filters returns what the score, min-reviews, discount, price
\* and sale-end filters return when each is applied, in this order, to the output
\* of the one before; every returned row is a row of the input that passes every
\* filter, no row is returned twice, and unless the sale-end type is a sort mode
\* the returned rows are in their input order.
C25_PipelineOrder ==
    f_call.filter = "deal_filters" =>
        LET p == f_call
            s1 == apply_score_filter(f_rows, p.score_type, p.score_value, p.label_value)
            s2 == apply_reviews_filter(s1, p.min_reviews)
            s3 == apply_discount_filter(s2, p.discount_value)
            s4 == apply_price_filter(s3, p.price_value, p.currency)
            s5 == apply_sale_end_filter(s4, p.sale_end_type, p.sale_end_value)
        IN  /\ f_out = s5
            /\ \A k \in 1..Len(f_out) : f_out[k] \in Range(f_rows) /\ PassesEach(f_out[k], p)
            /\ \A j, k \in 1..Len(f_out) : j # k => f_out[j] # f_out[k]
            /\ p.sale_end_type \notin {"Ending Soon", "Ending Latest"}
                  => f_out = SelectRows(f_rows, Range(f_out))

\* a call with a score, a min-reviews and a sale-end filter dropped some rows
\* and kept more than one
C25_Witness ==
    /\ f_call.filter = "deal_filters"
    /\ f_call.score_type = "Operator"
    /\ f_call.min_reviews # <<>>
    /\ f_call.sale_end_type = "By date"
    /\ f_call.sale_end_value = <<"<", "2", "0", "2", "6", "-", "0", "3", "-", "0", "1">>
    /\ Len(f_rows) = 4
    /\ Len(f_out) >= 2 /\ Len(f_out) < Len(f_rows)
    /\ \E k \in 1..Len(f_rows) : apply_reviews_filter(<<f_rows[k]>>, f_call.min_reviews) = <<>>

----------------------------------------------------------------------------
(* The rows of the results and the pool *)

\* C26: every row of every block's result is an element of the pool the call
\* was given, in sampled and in overridden blocks alike (an override identifier
\* that resolves in the index to a product that is not in the pool adds
\* nothing), and the call leaves the pool list as it is.
C26_ResultRowsOfPool ==
    /\ [](\A t \in threads : \A s \in Slots(run[t]) : RowAt(run[t], s) \in Range(pool))
    /\ [][pool' = pool]_vars

\* an override URL list resolved with the index given: b is a product of the
\* index that is not in the pool, and the block got the pool row of a only
C26_Witness ==
    \E t \in threads :
        /\ run[t].pc = "done"
        /\ ~IsNone(index) /\ 2 \in Get(index) /\ 2 \notin Range(pool)
        /\ Len(blocks) = 2
        /\ OverrideUrls(blocks[1]) # {} /\ ~CarriesOverride(blocks[2])
        /\ run[t].result[1] = Some(<<1>>)
        /\ ~IsNone(run[t].result[2]) /\ Get(run[t].result[2]) # <<>>

----------------------------------------------------------------------------
(* The background operations *)

Running == {w \in 1..Len(workers) : workers[w].pc = "run"}

Terminal == {"done", "error"}

\* the worker most recently started has a done or error message on the queue
LastWorkersTerminalQueued ==
    \E k \in 1..Len(_worker_queue) :
        /\ _worker_queue[k].kind \in Terminal
        /\ _worker_queue[k].w = Len(workers)

\* C27: at most one background operation is in progress at any time, and a
\* worker in progress has _worker_busy true; a request made while _worker_busy
\* is true is rejected and starts no thread; a thread is started only from
\* _worker_busy false and with _worker_busy set; and _worker_busy goes back to
\* false only in a run of _process_worker_queue that takes the done or error
\* message of the worker started last off the queue.
C27_OneOperationAtATime ==
    /\ [](Cardinality(Running) <= 1 /\ (Running # {} => _worker_busy))
    /\ [][ /\ (_worker_busy /\ gui'.request # gui.request)
              => /\ gui'.request.outcome = "busy"
                 /\ workers' = workers
                 /\ _worker_queue' = _worker_queue
                 /\ _worker_busy'
           /\ Len(workers') > Len(workers)
              => /\ ~_worker_busy /\ _worker_busy'
                 /\ gui'.request.outcome = "started"
                 /\ Len(workers') = Len(workers) + 1
           /\ (_worker_busy /\ ~_worker_busy')
              => /\ LastWorkersTerminalQueued
                 /\ _worker_queue' = <<>>
                 /\ polls > 0
                 /\ workers' = workers ]_vars

\* the feed load ended and its done message was processed, a fetch was started
\* after it, and an email build asked for while the fetch runs was refused
C27_Witness ==
    /\ Len(workers) = 2
    /\ workers[1].op = "load_feed" /\ workers[1].sent = <<"done">>
    /\ workers[2].op = "fetch_on_sale" /\ workers[2].pc = "run"
    /\ _worker_busy
    /\ gui.request = [op |-> "email_build", outcome |-> "busy"]

\* the messages a worker has put are progress messages, followed by one done
\* or error message once it has ended
SentInOrder(w) ==
    LET sent == workers[w].sent
        n == Len(sent)
    IN  IF workers[w].pc = "run"
        THEN \A k \in 1..n : sent[k] = "progress"
        ELSE /\ n >= 1
             /\ sent[n] \in Terminal
             /\ \A k \in 1..(n - 1) : sent[k] = "progress"

\* C28: every started worker puts exactly one done or error message, after all
\* of its progress messages and as its last message; while _worker_busy is
\* true a run of _process_worker_queue is pending; and with the pending
\* callbacks and the worker threads scheduled fairly, _worker_busy true leads
\* to _worker_busy false.
C28_WorkersEndAndBusyResets ==
    /\ [](\A w \in 1..Len(workers) : SentInOrder(w))
    /\ [](_worker_busy => polls > 0)
    /\ (_worker_busy ~> ~_worker_busy)

\* an email build put its two progress messages and then its error message,
\* which was processed: _worker_busy is false again and no poll is pending
C28_Witness ==
    /\ Len(workers) = 2
    /\ workers[2].op = "email_build"
    /\ workers[2].sent = <<"progress", "progress", "error">>
    /\ _worker_queue = <<>>
    /\ ~_worker_busy
    /\ polls = 0

----------------------------------------------------------------------------
(* The pool cursor of build_email_html *)

\* the games handed to the deal_list and featured blocks so far, in block order
HandedToLists ==
    IF bh = <<>> THEN <<>>
    ELSE SelectSeq(bh.handed, LAMBDA h : h.type \in {"deal_list", "featured"})

\* the positions of a hand-out are one run p, p+1, ...
IsSegment(games) == \A k \in 1..(Len(games) - 1) : games[k + 1] = games[k] + 1

\* C29: while build_email_html walks the blocks, whatever their configs, the
\* pool cursor never decreases and stays in 0..len(game_pool); the slices
\* handed to successive deal_list and featured blocks are segments of
\* game_pool that follow one another, so that no pool position is handed to
\* two of these blocks.
C29_CursorMonotone ==
    /\ [](bh # <<>> => pool_idx \in 0..Len(bh.game_pool))
    /\ [][pool_idx' >= pool_idx]_vars
    /\ [](\A j, k \in 1..Len(HandedToLists) :
            /\ IsSegment(HandedToLists[k].games)
            /\ j < k => \A p \in Range(HandedToLists[j].games),
                           q \in Range(HandedToLists[k].games) : p < q)

----------------------------------------------------------------------------
(* The URL keys *)

\* C30: normalize_url is idempotent: the key made from any string is its own
\* key, so a stored key that is looked up through normalize_url is found.
C30_NormalizeIdempotent ==
    (f_call.filter = "normalize_url" /\ Len(f_out) = 2) => f_out[2] = f_out[1]

====
